---- MODULE Spec2Model ----
(***************************************************************************)
(* A model of the insight-engine pipeline: the per-student record store    *)
(* (phase 2, 3 and 5 writers, phase 4 student files), the validators of    *)
(* model output (phase 2, 3 and 5), the phase-1 merge, the grouping and    *)
(* metric functions, the analyzers' process() loops, the index files, the  *)
(* phase-4 aggregation and the answer classifiers of phases 2, 5 and 6.    *)
(*                                                                         *)
(* JSON values are tagged records [tag, items]; a JSON object is a         *)
(* function from a fixed set of keys to values, a key that is not in the   *)
(* object being mapped to JAbsent.                                         *)
(***************************************************************************)
EXTENDS Integers, Sequences, FiniteSets, TLC

VARIABLES
    studentFile,   \* output/students/{student_id}.json
    phase4File,    \* output/phase4/students/{student_id}.json
    prevFile,      \* the target file of the last writer call, before the call
    lastOp,        \* the last writer call: [op, arg]
    repeated,      \* the last call has the arguments of the call before it
    raised,        \* the last call raised
    vphase,        \* the phase (2, 3 or 5) whose validator is applied
    response,      \* the raw model response handed to the validator
    result,        \* the list the validator returned
    vdone,         \* the validator has returned
    aphase,        \* the phase (3 or 5) whose analyzer process() runs
    aidx,          \* students handled so far by process()
    all_insights,  \* process(): the entries made so far, in insertion order
    callKinds,     \* what the model call did for each student handled
    aborted,       \* an exception left process()
    answer_key,    \* answer_key.csv: its rows
    response_sheet,\* response_sheet.csv: its rows, one cell per student column
    mergedFile,    \* merged.json
    mstatus,       \* merge_data.process(): "ready", "done" or "raised"
    mfiles,        \* which input files of the merge exist
    mergedInput,   \* merged.json as phases 2 and 4 load it
    student_chunks,   \* result of phase 2's group_by_student_subject_topic
    p4students,       \* output/phase4/students: one file per student
    all_student_data, \* result of phase 5's process_all_students
    gdone,            \* the grouping steps that have run
    counts,        \* a topic's questions, counted by classification
    metadata2,     \* result of phase 2's calculate_topic_metadata
    metrics5,      \* result of phase 5's calculate_topic_metrics
    cdone,         \* the metric functions that have run
    rfiles,        \* output/students: the file of each student, phase 2
    rrun,          \* phase 2, llm_analyzer.process(): 1 the first run, 2 the rerun
    ridx,          \* students the current run has processed
    rstatus,       \* "running", "stopped" or "done"
    rsnapshot,      \* the files as the first run left them when it stopped
    indexFile2,   \* output/students/_index.json
    indexFile4,   \* output/phase4/students/_index.json
    default_class,   \* Config.DEFAULT_CLASS
    ilast,   \* the last call of a write_index_file and its arguments
    pinput,   \* student_chunks handed to phase 2's llm_analyzer.process()
    pfiles,   \* output/students: the file of each input student
    pstudent,   \* process(): students completed
    pchunk,   \* process(): subject chunks of the current student analyzed
    pinsights,   \* process(): student_insights of the current student
    plast,   \* the last call of analyze_subject_chunk: chunk, outcome, result
    pevents,   \* process(): model calls, cool-downs and file writes so far, in order
    processed_count,   \* process(): its counter
    pstatus,   \* process(): running, returned or raised
    merged_files,   \* output/{class}/phase1/merged.json as load_merged_data returns it, by class
    p4selected,   \* phase 4: the classes selected at the prompt
    p4result,   \* phase 4: what process() returned
    p4written,   \* output/phase4/students as process() of phase 4 wrote it
    merged_after,   \* the loaded records of each class after aggregate_by_student
    p4done,   \* process() of phase 4 has returned
    crecords,   \* merged records handed to the classifiers of phases 2, 5 and 6
    class2,   \* phase 2: determine_correctness of each record
    wrong5,   \* phase 5: is_wrong_question of each record
    class6,   \* phase 6: classify_answer of each record
    classified   \* the phases whose classifier has run

storeVars == <<studentFile, phase4File, prevFile, lastOp, repeated, raised>>

valVars == <<vphase, response, result, vdone>>

anVars == <<aphase, aidx, all_insights, callKinds, aborted>>

mergeVars == <<answer_key, response_sheet, mergedFile, mstatus, mfiles>>

groupVars == <<mergedInput, student_chunks, p4students, all_student_data, gdone>>

metricVars == <<counts, metadata2, metrics5, cdone>>

resumeVars == <<rfiles, rrun, ridx, rstatus, rsnapshot>>

indexVars == <<indexFile2, indexFile4, default_class, ilast>>

phase2Vars == <<pinput, pfiles, pstudent, pchunk, pinsights, plast, pevents, processed_count, pstatus>>

aggVars == <<merged_files, p4selected, p4result, p4written, merged_after, p4done>>

classVars == <<crecords, class2, wrong5, class6, classified>>

vars == <<storeVars, valVars, anVars, mergeVars, groupVars, metricVars, resumeVars, indexVars, phase2Vars, aggVars, classVars>>

(***************************************************************************)
(* Bounds                                                                  *)
(***************************************************************************)
MaxBatch == 2      \* longest list of insights handed to one phase-2 write
MaxItems == 6      \* longest list of items in a model response
MaxStudents == 2   \* students in the input of an analyzer's process()
MaxRows == 2       \* rows of the response sheet
MaxRecords == 3    \* records of merged.json in the grouping phases
MaxTotal == 102    \* questions of one topic in the metric functions
MaxChunks == 2     \* subject chunks of one student in phase 2's process()
MaxAnswers == 2    \* records handed to the three classifiers

(***************************************************************************)
(* JSON values                                                             *)
(***************************************************************************)
JAbsent == [tag |-> "absent", items |-> <<>>]
JNull == [tag |-> "null", items |-> <<>>]
JList(s) == [tag |-> "list", items |-> s]
JStr(s) == [tag |-> "str", items |-> <<s>>]
JNum(n) == [tag |-> "num", items |-> << <<n>> >>]
JScalar == [tag |-> "scalar", items |-> <<>>]

Keys == {"student_id", "insights", "pattern_insights", "phase5_insights",
         "total_records", "records"}

EmptyDict == [k \in Keys |-> JAbsent]

\* dict.get(key, default)
DictGet(d, key, default) == IF d[key] = JAbsent THEN default ELSE d[key]

FileAbsent == [kind |-> "absent", data |-> EmptyDict]
FileMalformed == [kind |-> "malformed", data |-> EmptyDict]
FileNonDict == [kind |-> "nondict", data |-> EmptyDict]
FileDict(d) == [kind |-> "dict", data |-> d]

StudentId == "S1"

(***************************************************************************)
(* Phase-2 insights: the fields the store reads, and a body standing for   *)
(* the rest of the insight. NoField marks a key the insight lacks.         *)
(***************************************************************************)
NoField == "<nofield>"

Insight(t, n, b) == [test_name |-> t, topic_name |-> n, body |-> b]

InsightUniverse ==
    { Insight("T1", "Algebra", "x"), Insight("T1", "Algebra", "y"),
      Insight("T1", "Geometry", "x"), Insight(NoField, "Geometry", "x") }

SeqsUpTo(S, n) == UNION { [1..k -> S] : k \in 0..n }

Batches == SeqsUpTo(InsightUniverse, MaxBatch)

\* insight.get(field, "")
InsightGet(insight, field) ==
    IF insight[field] = NoField THEN "" ELSE insight[field]

\* key = (insight.get("test_name", ""), insight.get("topic_name", ""))
KeyOf(insight) == <<InsightGet(insight, "test_name"), InsightGet(insight, "topic_name")>>

KeysOf(s) == { KeyOf(s[i]) : i \in 1..Len(s) }

(***************************************************************************)
(* Phase 2: write_student_output                                           *)
(***************************************************************************)
\* A merge that appends every incoming insight (no key check).
RECURSIVE MergeNoDedup(_, _, _)
MergeNoDedup(existing_insights, existing_keys, insights) ==
    IF insights = <<>> THEN existing_insights
    ELSE MergeNoDedup(Append(existing_insights, Head(insights)),
                      existing_keys \cup {KeyOf(Head(insights))}, Tail(insights))

\* A merge in which a colliding incoming insight replaces the stored one.
RECURSIVE MergeLastWins(_, _, _)
MergeLastWins(existing_insights, existing_keys, insights) ==
    IF insights = <<>> THEN existing_insights
    ELSE LET insight == Head(insights)
             key == KeyOf(insight)
         IN IF key \notin existing_keys
            THEN MergeLastWins(Append(existing_insights, insight),
                               existing_keys \cup {key}, Tail(insights))
            ELSE MergeLastWins(
                     [i \in 1..Len(existing_insights) |->
                         IF KeyOf(existing_insights[i]) = key
                         THEN insight ELSE existing_insights[i]],
                     existing_keys, Tail(insights))

\* A merge that does not add the key of an appended insight to the keys.
RECURSIVE MergeKeysNotUpdated(_, _, _)
MergeKeysNotUpdated(existing_insights, existing_keys, insights) ==
    IF insights = <<>> THEN existing_insights
    ELSE IF KeyOf(Head(insights)) \notin existing_keys
         THEN MergeKeysNotUpdated(Append(existing_insights, Head(insights)),
                                  existing_keys, Tail(insights))
         ELSE MergeKeysNotUpdated(existing_insights, existing_keys, Tail(insights))

\* The loop of lines 45-50: append an insight only if its key is not stored yet.
RECURSIVE MergeInsights(_, _, _)
MergeInsights(existing_insights, existing_keys, insights) ==
    IF insights = <<>> THEN existing_insights
    ELSE LET insight == Head(insights)
             key == KeyOf(insight)
         IN IF key \notin existing_keys
            THEN MergeInsights(Append(existing_insights, insight),
                               existing_keys \cup {key}, Tail(insights))
            ELSE MergeInsights(existing_insights, existing_keys, Tail(insights))

\* Lines 27-35: the insights of the existing file; every failure of the load
\* (unparseable, or parsed to a value without .get) is caught and gives [].
LoadExistingInsights(file) ==
    IF file.kind = "dict" THEN DictGet(file.data, "insights", JList(<<>>))
    ELSE JList(<<>>)

\* A writer that does not read the existing file.
write_student_output_overwrite(file, student_id, insights) ==
    [file |-> FileDict([EmptyDict EXCEPT !["student_id"] = JStr(student_id),
                                         !["insights"] = JList(MergeInsights(<<>>, {}, insights))]),
     raised |-> FALSE]

\* The whole call: [file |-> the file after the call, raised |-> whether it raised].
\* Iterating a stored "insights" that is not a list raises (line 39, outside the
\* try) before the file is opened for writing.
write_student_output(file, student_id, insights) ==
    LET existing == LoadExistingInsights(file)
    IN IF existing.tag # "list"
       THEN [file |-> file, raised |-> TRUE]
       ELSE LET merged == MergeInsights(existing.items, KeysOf(existing.items), insights)
                output_data == [EmptyDict EXCEPT !["student_id"] = JStr(student_id),
                                                 !["insights"] = JList(merged)]
            IN [file |-> FileDict(output_data), raised |-> FALSE]

(***************************************************************************)
(* Phase 3: write_student_insights                                         *)
(***************************************************************************)
PatternLists == { [i \in 1..5 |-> "p"], [i \in 1..5 |-> "q"] }

\* A writer that rebuilds the record from scratch.
Phase3StudentDataFresh(file, student_id) ==
    [EmptyDict EXCEPT !["student_id"] = JStr(student_id)]

\* Lines 30-39: the loaded record, or a fresh one when the file is absent or
\* cannot be parsed.
Phase3StudentData(file, student_id) ==
    IF file.kind = "dict" THEN file.data
    ELSE [EmptyDict EXCEPT !["student_id"] = JStr(student_id)]

\* Item assignment on a parsed value that is not an object raises (line 42).
write_student_insights3(file, student_id, insights) ==
    IF file.kind = "nondict"
    THEN [file |-> file, raised |-> TRUE]
    ELSE [file |-> FileDict([Phase3StudentData(file, student_id)
                              EXCEPT !["pattern_insights"] = JList(insights)]),
          raised |-> FALSE]

(***************************************************************************)
(* Phase 5: write_student_insights (on the phase-4 student file)           *)
(***************************************************************************)
Phase5Lists == { [i \in 1..5 |-> "u"], [i \in 1..5 |-> "v"] }

\* A writer that keeps only the student id beside its own key.
Phase5UpdateFresh(d, insights) ==
    [EmptyDict EXCEPT !["student_id"] = d["student_id"],
                      !["phase5_insights"] = JList(insights)]

\* Line 36: student_data["phase5_insights"] = insights
Phase5Update(d, insights) == [d EXCEPT !["phase5_insights"] = JList(insights)]

\* A missing file is skipped; every failure inside the try is caught and logged,
\* and happens before the file is opened for writing.
write_student_insights5(file, student_id, insights) ==
    IF file.kind = "dict"
    THEN [file |-> FileDict(Phase5Update(file.data, insights)), raised |-> FALSE]
    ELSE [file |-> file, raised |-> FALSE]

(***************************************************************************)
(* Phase 4: write_student_files (one student's file)                       *)
(***************************************************************************)
RecordLists == { <<"r1", "r2">> }

write_student_file4(student_id, records) ==
    FileDict([EmptyDict EXCEPT !["student_id"] = JStr(student_id),
                               !["total_records"] = JNum(ToString(Len(records))),
                               !["records"] = JList(records)])

(***************************************************************************)
(* The store as a state machine                                            *)
(***************************************************************************)
NoOp == [op |-> "none", arg |-> <<>>]

\* No classifier has been given records.
ClassifyIdle ==
    /\ crecords = <<>>
    /\ class2 = <<>>
    /\ wrong5 = <<>>
    /\ class6 = <<>>
    /\ classified = {}

\* Phase 4's process() has not been started.
AggIdle ==
    /\ merged_files = <<>>
    /\ p4selected = <<>>
    /\ p4result = <<>>
    /\ p4written = <<>>
    /\ merged_after = <<>>
    /\ p4done = FALSE

\* llm_analyzer.process() of phase 2 has not been started.
Phase2Idle ==
    /\ pinput = <<>>
    /\ pfiles = <<>>
    /\ pstudent = 0
    /\ pchunk = 0
    /\ pinsights = <<>>
    /\ plast = [called |-> FALSE]
    /\ pevents = <<>>
    /\ processed_count = 0
    /\ pstatus = "idle"

\* No index file has been written.
IndexIdle ==
    /\ indexFile2 = <<>>
    /\ indexFile4 = <<>>
    /\ default_class = "class_7"
    /\ ilast = <<>>

\* Phase 2's process() is not running.
ResumeIdle ==
    /\ rfiles = <<>>
    /\ rrun = 0
    /\ ridx = 0
    /\ rstatus = "idle"
    /\ rsnapshot = <<>>

\* The grouping phases are not running.
GroupIdle ==
    /\ mergedInput = <<>>
    /\ student_chunks = <<>>
    /\ p4students = <<>>
    /\ all_student_data = <<>>
    /\ gdone = {}

\* No metric function is running.
MetricsIdle ==
    /\ counts = [correct |-> 0, wrong |-> 0, unattempted |-> 0]
    /\ metadata2 = [topic_accuracy |-> 0, attempt_ratio |-> 0]
    /\ metrics5 = [accuracy |-> 0, weighted_accuracy |-> 0, total_questions |-> 0,
                   correct_count |-> 0, wrong_count |-> 0]
    /\ cdone = {}

\* The merge is not running.
MergeIdle ==
    /\ answer_key = <<>>
    /\ response_sheet = <<>>
    /\ mergedFile = [written |-> FALSE, records |-> <<>>]
    /\ mstatus = "idle"
    /\ mfiles = [question_paper |-> "own", answer_key |-> TRUE, response_sheet |-> TRUE]

\* No analyzer is running.
AnIdle ==
    /\ aphase = 0
    /\ aidx = 0
    /\ all_insights = <<>>
    /\ callKinds = <<>>
    /\ aborted = FALSE

\* The validator is not running.
ValIdle ==
    /\ vphase = 0
    /\ response = JScalar
    /\ result = <<>>
    /\ vdone = FALSE

InitStudentFiles ==
    { FileAbsent, FileMalformed, FileNonDict,
      FileDict([EmptyDict EXCEPT !["student_id"] = JStr(StudentId),
                                 !["insights"] = JNull]) }

StoreInit ==
    /\ studentFile \in InitStudentFiles
    /\ phase4File \in {FileAbsent, FileMalformed}
    /\ prevFile = FileAbsent
    /\ lastOp = NoOp
    /\ repeated = FALSE
    /\ raised = FALSE
    /\ ValIdle
    /\ AnIdle
    /\ MergeIdle
    /\ GroupIdle
    /\ MetricsIdle
    /\ ResumeIdle
    /\ IndexIdle
    /\ Phase2Idle
    /\ AggIdle
    /\ ClassifyIdle

WriteStudentOutput ==
    \E insights \in Batches :
        LET r == write_student_output(studentFile, StudentId, insights)
            op == [op |-> "w2", arg |-> insights]
        IN /\ studentFile' = r.file
           /\ raised' = r.raised
           /\ prevFile' = studentFile
           /\ lastOp' = op
           /\ repeated' = (lastOp = op)
           /\ UNCHANGED <<phase4File, valVars, anVars, mergeVars, groupVars, metricVars, resumeVars, indexVars, phase2Vars, aggVars, classVars>>

WriteStudentInsights3 ==
    \E insights \in PatternLists :
        LET r == write_student_insights3(studentFile, StudentId, insights)
            op == [op |-> "w3", arg |-> insights]
        IN /\ studentFile' = r.file
           /\ raised' = r.raised
           /\ prevFile' = studentFile
           /\ lastOp' = op
           /\ repeated' = (lastOp = op)
           /\ UNCHANGED <<phase4File, valVars, anVars, mergeVars, groupVars, metricVars, resumeVars, indexVars, phase2Vars, aggVars, classVars>>

WriteStudentInsights5 ==
    \E insights \in Phase5Lists :
        LET r == write_student_insights5(phase4File, StudentId, insights)
            op == [op |-> "w5", arg |-> insights]
        IN /\ phase4File' = r.file
           /\ raised' = r.raised
           /\ prevFile' = phase4File
           /\ lastOp' = op
           /\ repeated' = (lastOp = op)
           /\ UNCHANGED <<studentFile, valVars, anVars, mergeVars, groupVars, metricVars, resumeVars, indexVars, phase2Vars, aggVars, classVars>>

WriteStudentFiles4 ==
    \E records \in RecordLists :
        LET op == [op |-> "w4", arg |-> records]
        IN /\ phase4File' = write_student_file4(StudentId, records)
           /\ raised' = FALSE
           /\ prevFile' = phase4File
           /\ lastOp' = op
           /\ repeated' = (lastOp = op)
           /\ UNCHANGED <<studentFile, valVars, anVars, mergeVars, groupVars, metricVars, resumeVars, indexVars, phase2Vars, aggVars, classVars>>

StoreNext ==
    \/ WriteStudentOutput
    \/ WriteStudentInsights3
    \/ WriteStudentInsights5
    \/ WriteStudentFiles4

SpecStore == StoreInit /\ [][StoreNext]_vars

(***************************************************************************)
(* Claims on the store                                                     *)
(***************************************************************************)
InsightsOf(file) == file.data["insights"].items

HasInsightList(file) == file.kind = "dict" /\ file.data["insights"].tag = "list"

CountKey(s, key) == Cardinality({ j \in 1..Len(s) : KeyOf(s[j]) = key })

\* The first insight of s that has the key.
FirstWithKey(s, key) ==
    s[CHOOSE i \in 1..Len(s) :
        /\ KeyOf(s[i]) = key
        /\ \A j \in 1..(i - 1) : KeyOf(s[j]) # key]

\* C1: a phase-2 write that repeats the call before it (same student, same
\* insights) leaves the file as the first call left it, and no insight of the
\* batch is stored twice.
C1_Idempotent ==
    (lastOp.op = "w2" /\ repeated) =>
        /\ studentFile = prevFile
        /\ ~raised =>
              \A i \in 1..Len(lastOp.arg) :
                  CountKey(InsightsOf(studentFile), KeyOf(lastOp.arg[i])) = 1

C1_Witness ==
    /\ lastOp.op = "w2" /\ repeated /\ ~raised
    /\ Len(lastOp.arg) = 2
    /\ KeyOf(lastOp.arg[1]) # KeyOf(lastOp.arg[2])
    /\ Len(InsightsOf(studentFile)) >= 2

\* C2: a phase-2 write onto a file that holds a list of insights keeps the
\* stored insights as they were, in their order, at the head of the list;
\* an incoming insight whose key is stored is not appended; for each key not
\* stored, exactly the first incoming insight with that key is appended.
C2_FirstWriteWins ==
    (lastOp.op = "w2" /\ ~raised /\ HasInsightList(prevFile)) =>
        LET old == InsightsOf(prevFile)
            new == InsightsOf(studentFile)
            inc == lastOp.arg
            added == SubSeq(new, Len(old) + 1, Len(new))
        IN /\ HasInsightList(studentFile)
           /\ Len(new) >= Len(old)
           /\ SubSeq(new, 1, Len(old)) = old
           /\ Len(new) = Len(old) + Cardinality(KeysOf(inc) \ KeysOf(old))
           /\ \A i \in 1..Len(inc) :
                 IF KeyOf(inc[i]) \in KeysOf(old)
                 THEN CountKey(added, KeyOf(inc[i])) = 0
                 ELSE /\ CountKey(added, KeyOf(inc[i])) = 1
                      /\ \E j \in 1..Len(added) :
                            added[j] = FirstWithKey(inc, KeyOf(inc[i]))

C2_Witness ==
    /\ lastOp.op = "w2" /\ ~raised /\ HasInsightList(prevFile)
    /\ InsightsOf(prevFile) = <<Insight("T1", "Algebra", "x")>>
    /\ lastOp.arg = <<Insight("T1", "Algebra", "y"), Insight("T1", "Geometry", "x")>>
    /\ InsightsOf(studentFile) =
           <<Insight("T1", "Algebra", "x"), Insight("T1", "Geometry", "x")>>

\* C3: no phase-2 or phase-3 write removes data written earlier: the stored
\* insights are still in `insights` after the write, and pattern_insights,
\* once written, is still present after it.
C3_Additive ==
    (lastOp.op \in {"w2", "w3"} /\ prevFile.kind = "dict") =>
        /\ HasInsightList(prevFile) =>
              /\ HasInsightList(studentFile)
              /\ \A i \in 1..Len(InsightsOf(prevFile)) :
                    \E j \in 1..Len(InsightsOf(studentFile)) :
                        InsightsOf(studentFile)[j] = InsightsOf(prevFile)[i]
        /\ prevFile.data["pattern_insights"].tag = "list" =>
              studentFile.data["pattern_insights"].tag = "list"

\* C4: a phase-3 (phase-5) write onto a file that holds a student record sets
\* pattern_insights (phase5_insights) to the new list, whatever it held, and
\* leaves every other top-level key as it was.
C4_ReplaceOwnKey ==
    /\ (lastOp.op = "w3" /\ prevFile.kind = "dict") =>
          /\ ~raised
          /\ studentFile.kind = "dict"
          /\ studentFile.data["pattern_insights"] = JList(lastOp.arg)
          /\ \A k \in Keys \ {"pattern_insights"} :
                studentFile.data[k] = prevFile.data[k]
    /\ (lastOp.op = "w5" /\ prevFile.kind = "dict") =>
          /\ ~raised
          /\ phase4File.kind = "dict"
          /\ phase4File.data["phase5_insights"] = JList(lastOp.arg)
          /\ \A k \in Keys \ {"phase5_insights"} :
                phase4File.data[k] = prevFile.data[k]

C4_Witness ==
    /\ lastOp.op = "w3" /\ prevFile.kind = "dict"
    /\ prevFile.data["pattern_insights"].tag = "list"
    /\ prevFile.data["pattern_insights"] # JList(lastOp.arg)
    /\ HasInsightList(prevFile) /\ Len(InsightsOf(prevFile)) >= 1

(***************************************************************************)
(* Strings and values of a model response                                  *)
(*                                                                         *)
(* A string is a sequence of tokens; the token " " is white space. A value *)
(* of a response item is JAbsent (no such key), JNull, JStr(string),       *)
(* JNum(token) or JList(sequence of strings).                              *)
(***************************************************************************)
RECURSIVE LStrip(_)
LStrip(s) == IF s # <<>> /\ Head(s) = " " THEN LStrip(Tail(s)) ELSE s

RECURSIVE RStrip(_)
RStrip(s) ==
    IF s # <<>> /\ s[Len(s)] = " " THEN RStrip(SubSeq(s, 1, Len(s) - 1)) ELSE s

\* str.strip()
Strip(s) == RStrip(LStrip(s))

RECURSIVE Flatten(_)
Flatten(ss) == IF ss = <<>> THEN <<>> ELSE Head(ss) \o Flatten(Tail(ss))

\* str(value)
PyStr(v) ==
    CASE v.tag = "str" -> v.items[1]
      [] v.tag = "num" -> v.items[1]
      [] v.tag = "null" -> <<"None">>
      [] v.tag = "list" -> <<"[">> \o Flatten(v.items) \o <<"]">>
      [] OTHER -> <<>>

\* not value
Falsy(v) ==
    \/ v.tag = "null"
    \/ v.tag = "str" /\ v.items[1] = <<>>
    \/ v.tag = "list" /\ v.items = <<>>
    \/ v.tag = "num" /\ v.items[1] = <<"0">>

NumTokens == {"0", "85"}

\* float(value), 0.0 when the conversion raises
PyFloatOrZero(v) ==
    CASE v.tag = "num" -> v
      [] v.tag = "str" /\ Len(Strip(v.items[1])) = 1
                       /\ Strip(v.items[1])[1] \in NumTokens -> JNum(Strip(v.items[1])[1])
      [] OTHER -> JNum("0.0")

(***************************************************************************)
(* Items and responses                                                     *)
(***************************************************************************)
Fields2 == {"test_name", "subject", "topic_name",
            "strength_insights", "weakness_insights", "learning_recommendations"}
ListFields2 == {"strength_insights", "weakness_insights", "learning_recommendations"}
Fields3 == {"insight", "recommendation", "citation"}
Fields5 == {"topic", "subject", "accuracy", "problem", "action", "citation"}

RequiredFields(p) == CASE p = 2 -> Fields2 [] p = 3 -> Fields3 [] OTHER -> Fields5

\* The keys an item of phase p may carry: the required ones and one more
\* (in phase 2 also the topic_metadata the analyzer adds).
ItemKeys(p) ==
    RequiredFields(p) \cup (IF p = 2 THEN {"extra", "topic_metadata"} ELSE {"extra"})

NoFields(p) == [k \in ItemKeys(p) |-> JAbsent]

DictItem(f) == [isdict |-> TRUE, f |-> f]
NonDictItem(p) == [isdict |-> FALSE, f |-> NoFields(p)]

T(w) == JStr(<<w>>)

FullA(p) ==
    CASE p = 2 -> [NoFields(2) EXCEPT !["test_name"] = T("T1"), !["subject"] = T("Math"),
                       !["topic_name"] = T("Algebra"),
                       !["strength_insights"] = JList(<< <<"s1">> >>),
                       !["weakness_insights"] = JList(<< <<"w1">> >>),
                       !["learning_recommendations"] = JList(<< <<"l1">> >>)]
      [] p = 3 -> [NoFields(3) EXCEPT !["insight"] = T("i1"), !["recommendation"] = T("r1"),
                       !["citation"] = T("c1")]
      [] OTHER -> [NoFields(5) EXCEPT !["topic"] = T("t1"), !["subject"] = T("Math"),
                       !["accuracy"] = JNum("85"), !["problem"] = T("p1"),
                       !["action"] = T("a1"), !["citation"] = T("c1")]

\* Complete, with values that the validator has to coerce.
FullB(p) ==
    CASE p = 2 -> [NoFields(2) EXCEPT !["test_name"] = T("T1"), !["subject"] = T("Math"),
                       !["topic_name"] = T("Geometry"),
                       !["strength_insights"] = T("s2"),
                       !["weakness_insights"] = JList(<<>>),
                       !["learning_recommendations"] = JNull,
                       !["extra"] = T("e")]
      [] p = 3 -> [NoFields(3) EXCEPT !["insight"] = JStr(<<" ", "i2", " ">>),
                       !["recommendation"] = JNum("85"), !["citation"] = T("c2"),
                       !["extra"] = T("e")]
      [] OTHER -> [NoFields(5) EXCEPT !["topic"] = JStr(<<" ", "t2">>), !["subject"] = T("Math"),
                       !["accuracy"] = T("abc"), !["problem"] = JNull,
                       !["action"] = T("a2"), !["citation"] = T("c2"),
                       !["extra"] = T("e")]

\* Lacks required fields.
Partial(p) ==
    CASE p = 2 -> [NoFields(2) EXCEPT !["subject"] = T("Math"),
                       !["strength_insights"] = JList(<< <<"s3">> >>),
                       !["learning_recommendations"] = T("l3")]
      [] p = 3 -> [NoFields(3) EXCEPT !["insight"] = JStr(<<>>), !["citation"] = T("c3")]
      [] OTHER -> [NoFields(5) EXCEPT !["topic"] = T("t3"), !["subject"] = T("Math"),
                       !["accuracy"] = JNum("85"), !["problem"] = T("p3"),
                       !["action"] = T("a3")]

ItemUniverse(p) ==
    { NonDictItem(p), DictItem(FullA(p)), DictItem(FullB(p)), DictItem(Partial(p)) }

ItemLists(p) == SeqsUpTo(ItemUniverse(p), MaxItems)

\* A response: a list of items, a mapping (its own keys in fields, the value
\* under its key "insights" in inner) or any other value.
InnerAbsent == [tag |-> "absent", items |-> <<>>]
ListResponse(p, l) ==
    [tag |-> "list", items |-> l, fields |-> NoFields(p), inner |-> InnerAbsent]
DictResponse(f, inner) ==
    [tag |-> "dict", items |-> <<>>, fields |-> f, inner |-> inner]
ScalarResponse(p) ==
    [tag |-> "scalar", items |-> <<>>, fields |-> NoFields(p), inner |-> InnerAbsent]

\* The value under "insights" taken as the response.
InnerAsResponse(p, inner) ==
    [tag |-> inner.tag, items |-> inner.items, fields |-> NoFields(p), inner |-> InnerAbsent]

Responses(p) ==
    { ListResponse(p, l) : l \in ItemLists(p) }
    \cup { DictResponse(f, [tag |-> "list", items |-> l]) :
              f \in {NoFields(p)}, l \in ItemLists(p) }
    \cup { DictResponse(FullA(p), [tag |-> "list", items |-> <<DictItem(FullB(p))>>]) }
    \cup { DictResponse(NoFields(p), [tag |-> t, items |-> <<>>]) : t \in {"dict", "scalar"} }
    \cup { DictResponse(f, InnerAbsent) : f \in {NoFields(p), FullA(p), FullB(p), Partial(p)} }
    \cup { ScalarResponse(p) }

(***************************************************************************)
(* Phase 3: validate_and_repair_insights                                   *)
(***************************************************************************)
\* An unwrap step that takes every mapping as one item.
Unwrap3NoWrapperKey(p, resp) ==
    IF resp.tag = "dict" THEN ListResponse(p, <<DictItem(resp.fields)>>) ELSE resp

\* Lines 22-29: a mapping with the key "insights" is replaced by the value
\* under it, any other mapping by the one-element list holding it.
Unwrap3(p, resp) ==
    IF resp.tag = "dict"
    THEN IF resp.inner.tag # "absent"
         THEN InnerAsResponse(p, resp.inner)
         ELSE ListResponse(p, <<DictItem(resp.fields)>>)
    ELSE resp

\* Lines 49-54: the fallback of a field that is missing or empty (i: the
\* item's index in the response, from 0).
Fallback3(field, i) ==
    CASE field = "insight" ->
             JStr(<<"Pattern analysis incomplete for insight ", ToString(i + 1)>>)
      [] field = "recommendation" -> T("Review performance data manually")
      [] OTHER -> T("Insufficient data")

\* Lines 45-59: fill what is missing or empty, then make each field a
\* stripped string.
RepairItem3(item, i) ==
    LET filled == [k \in DOMAIN item.f |->
                      IF k \in Fields3 /\ (item.f[k].tag = "absent" \/ Falsy(item.f[k]))
                      THEN Fallback3(k, i) ELSE item.f[k]]
    IN DictItem([k \in DOMAIN filled |->
                    IF k \in Fields3 THEN JStr(Strip(PyStr(filled[k]))) ELSE filled[k]])

\* Lines 39-61: the loop over the response.
RECURSIVE ValidateItems3(_, _, _)
ValidateItems3(items, i, validated) ==
    IF i >= Len(items) THEN validated
    ELSE IF ~items[i + 1].isdict
         THEN ValidateItems3(items, i + 1, validated)
         ELSE ValidateItems3(items, i + 1, Append(validated, RepairItem3(items[i + 1], i)))

\* Lines 67-71: the item appended when fewer than 5 are valid (n: its rank).
PadItem3(n) ==
    DictItem([NoFields(3) EXCEPT
        !["insight"] = JStr(<<"Additional pattern analysis needed (insight ", ToString(n), ")">>),
        !["recommendation"] = T("Continue monitoring performance across topics"),
        !["citation"] = T("Insufficient data for pattern detection")])

\* A cardinality step that never pads.
EnsureFive3NoPad(validated) ==
    IF Len(validated) > 5 THEN SubSeq(validated, 1, 5) ELSE validated

RECURSIVE Pad3(_)
Pad3(validated) ==
    IF Len(validated) < 5
    THEN Pad3(Append(validated, PadItem3(Len(validated) + 1)))
    ELSE validated

\* Lines 63-74: pad to 5, or keep the first 5.
EnsureFive3(validated) ==
    IF Len(validated) < 5 THEN Pad3(validated)
    ELSE IF Len(validated) > 5 THEN SubSeq(validated, 1, 5)
    ELSE validated

validate_and_repair_insights(resp) ==
    LET r == Unwrap3(3, resp)
    IN IF r.tag # "list" THEN <<>>
       ELSE EnsureFive3(ValidateItems3(r.items, 0, <<>>))

(***************************************************************************)
(* Phase 5: validate_insights                                              *)
(***************************************************************************)
\* Lines 22-23: only a mapping with the key "insights" is unwrapped.
Unwrap5(p, resp) ==
    IF resp.tag = "dict" /\ resp.inner.tag # "absent"
    THEN InnerAsResponse(p, resp.inner)
    ELSE resp

\* Line 37: the item lacks one of the required keys.
MissingAny5(item) == \E k \in Fields5 : item.f[k].tag = "absent"

\* A check that never finds a key missing.
MissingAny5Never(item) == FALSE

\* Lines 42-52: strings stripped, accuracy a float.
CoerceItem5(item) ==
    DictItem([k \in DOMAIN item.f |->
        IF k \in {"topic", "subject", "problem", "action", "citation"}
        THEN JStr(Strip(PyStr(item.f[k])))
        ELSE IF k = "accuracy" THEN PyFloatOrZero(item.f[k])
        ELSE item.f[k]])

\* Lines 32-54: the loop over the response.
RECURSIVE ValidateItems5(_, _, _)
ValidateItems5(items, i, validated) ==
    IF i >= Len(items) THEN validated
    ELSE IF ~items[i + 1].isdict \/ MissingAny5(items[i + 1])
         THEN ValidateItems5(items, i + 1, validated)
         ELSE ValidateItems5(items, i + 1, Append(validated, CoerceItem5(items[i + 1])))

\* Lines 60-67
PadItem5 ==
    DictItem([NoFields(5) EXCEPT
        !["topic"] = T("General"), !["subject"] = T("Overall"),
        !["accuracy"] = JNum("0.0"),
        !["problem"] = T("Additional pattern analysis needed"),
        !["action"] = T("Continue monitoring performance across tests"),
        !["citation"] = T("Insufficient data for pattern detection")])

RECURSIVE Pad5(_)
Pad5(validated) ==
    IF Len(validated) < 5 THEN Pad5(Append(validated, PadItem5)) ELSE validated

\* A cardinality step that keeps the last 5.
EnsureFive5KeepLast(validated) ==
    IF Len(validated) < 5 THEN Pad5(validated)
    ELSE IF Len(validated) > 5 THEN SubSeq(validated, Len(validated) - 4, Len(validated))
    ELSE validated

\* Lines 56-70: pad to 5, or keep the first 5.
EnsureFive5(validated) ==
    IF Len(validated) < 5 THEN Pad5(validated)
    ELSE IF Len(validated) > 5 THEN SubSeq(validated, 1, 5)
    ELSE validated

validate_insights(resp) ==
    LET r == Unwrap5(5, resp)
    IN IF r.tag # "list" THEN <<>>
       ELSE EnsureFive5(ValidateItems5(r.items, 0, <<>>))

(***************************************************************************)
(* Phase 2: validate_and_repair_response                                   *)
(***************************************************************************)
\* The subject chunk the response answers: its test, subject and topic names.
\* The metadata of a topic of a subject chunk (a mapping).
TopicMeta(topic_name) == [tag |-> "dict", items |-> << <<"metadata", topic_name>> >>]

SubjectChunk ==
    [test_name |-> "T1", subject |-> "Math", topics |-> <<"Algebra", "Geometry">>,
     metadata |-> <<TopicMeta("Algebra"), TopicMeta("Geometry")>>]

\* Lines 22-28: a mapping with the key "topic_name" is one item; any other
\* mapping is refused (the function returns []).
Unwrap2(p, resp) ==
    IF resp.tag = "dict"
    THEN IF resp.fields["topic_name"].tag # "absent"
         THEN ListResponse(p, <<DictItem(resp.fields)>>)
         ELSE ScalarResponse(p)
    ELSE resp

\* Lines 51-59: the fallback of a missing field (i: the item's index, from 0).
Fallback2(field, i, chunk) ==
    CASE field = "test_name" -> T(chunk.test_name)
      [] field = "subject" -> T(chunk.subject)
      [] field = "topic_name" ->
             IF i < Len(chunk.topics) THEN T(chunk.topics[i + 1])
             ELSE JStr(<<"Topic_", ToString(i + 1)>>)
      [] OTHER -> JList(<< <<"Insufficient data available to generate meaningful insights.">> >>)

\* A repair that fills nothing.
FillMissing2Nothing(item, i, chunk) == item.f

\* Lines 47-59
FillMissing2(item, i, chunk) ==
    [k \in DOMAIN item.f |->
        IF k \in Fields2 /\ item.f[k].tag = "absent"
        THEN Fallback2(k, i, chunk) ELSE item.f[k]]

\* Lines 62-66: a list field that is present and not a list becomes [str(value)].
EnsureArrays2(f) ==
    [k \in DOMAIN f |->
        IF k \in ListFields2
        THEN IF f[k].tag = "absent" THEN JList(<< <<"Data unavailable.">> >>)
             ELSE IF f[k].tag # "list" THEN JList(<<PyStr(f[k])>>)
             ELSE f[k]
        ELSE f[k]]

RepairItem2(item, i, chunk) == DictItem(EnsureArrays2(FillMissing2(item, i, chunk)))

\* Lines 41-68: the loop over the response.
RECURSIVE ValidateItems2(_, _, _, _)
ValidateItems2(items, i, validated, chunk) ==
    IF i >= Len(items) THEN validated
    ELSE IF ~items[i + 1].isdict
         THEN ValidateItems2(items, i + 1, validated, chunk)
         ELSE ValidateItems2(items, i + 1,
                             Append(validated, RepairItem2(items[i + 1], i, chunk)), chunk)

validate_and_repair_response(resp, subject_chunk) ==
    LET r == Unwrap2(2, resp)
    IN IF r.tag # "list" THEN <<>>
       ELSE ValidateItems2(r.items, 0, <<>>, subject_chunk)

(***************************************************************************)
(* The validators as a state machine: one response, validated once         *)
(***************************************************************************)
\* No writer has run.
StoreIdle ==
    /\ studentFile = FileAbsent
    /\ phase4File = FileAbsent
    /\ prevFile = FileAbsent
    /\ lastOp = NoOp
    /\ repeated = FALSE
    /\ raised = FALSE

ValidateInit ==
    /\ vphase \in {2, 3, 5}
    /\ response \in Responses(vphase)
    /\ result = <<>>
    /\ vdone = FALSE
    /\ StoreIdle
    /\ AnIdle
    /\ MergeIdle
    /\ GroupIdle
    /\ MetricsIdle
    /\ ResumeIdle
    /\ IndexIdle
    /\ Phase2Idle
    /\ AggIdle
    /\ ClassifyIdle

Validate2 ==
    /\ vphase = 2 /\ ~vdone
    /\ result' = validate_and_repair_response(response, SubjectChunk)
    /\ vdone' = TRUE
    /\ UNCHANGED <<vphase, response, storeVars, anVars, mergeVars, groupVars, metricVars, resumeVars, indexVars, phase2Vars, aggVars, classVars>>

Validate3 ==
    /\ vphase = 3 /\ ~vdone
    /\ result' = validate_and_repair_insights(response)
    /\ vdone' = TRUE
    /\ UNCHANGED <<vphase, response, storeVars, anVars, mergeVars, groupVars, metricVars, resumeVars, indexVars, phase2Vars, aggVars, classVars>>

Validate5 ==
    /\ vphase = 5 /\ ~vdone
    /\ result' = validate_insights(response)
    /\ vdone' = TRUE
    /\ UNCHANGED <<vphase, response, storeVars, anVars, mergeVars, groupVars, metricVars, resumeVars, indexVars, phase2Vars, aggVars, classVars>>

ValidateNext == Validate2 \/ Validate3 \/ Validate5

SpecValidate == ValidateInit /\ [][ValidateNext]_vars

(***************************************************************************)
(* Claims on the validators                                                *)
(***************************************************************************)
Min(a, b) == IF a < b THEN a ELSE b

\* The members of the set S of indices among i..n, in increasing order.
RECURSIVE IncreasingSeq(_, _, _)
IncreasingSeq(S, i, n) ==
    IF i > n THEN <<>>
    ELSE (IF i \in S THEN <<i>> ELSE <<>>) \o IncreasingSeq(S, i + 1, n)

\* The indices (from 1, increasing) of the items of a list that satisfy P.
PositionsOf(items, P(_)) ==
    IncreasingSeq({ i \in 1..Len(items) : P(items[i]) }, 1, Len(items))

IsMapping(item) == item.isdict
IsComplete5(item) == item.isdict /\ \A k \in Fields5 : item.f[k].tag # "absent"

\* The item lacks the required field (phase 3 also counts an empty value).
Lacks(p, item, k) ==
    \/ item.f[k].tag = "absent"
    \/ p = 3 /\ Falsy(item.f[k])

\* What the validator of phase p makes of a required field that is there.
Coerced(p, k, v) ==
    CASE p = 2 -> IF k \in ListFields2 /\ v.tag # "list" THEN JList(<<PyStr(v)>>) ELSE v
      [] p = 3 -> JStr(Strip(PyStr(v)))
      [] OTHER -> IF k = "accuracy" THEN PyFloatOrZero(v) ELSE JStr(Strip(PyStr(v)))

\* r is the item (at index i, from 0, of the response) kept: the fields it has
\* coerced, the required fields it lacks filled by the phase's fallback (phase
\* 5 defines none: filled by anything), its other keys untouched.
Retains(p, item, i, r) ==
    /\ r.isdict
    /\ \A k \in DOMAIN item.f :
          IF k \notin RequiredFields(p) THEN r.f[k] = item.f[k]
          ELSE IF ~Lacks(p, item, k) THEN r.f[k] = Coerced(p, k, item.f[k])
          ELSE CASE p = 2 -> r.f[k] = Fallback2(k, i, SubjectChunk)
                 [] p = 3 -> r.f[k] = JStr(Strip(PyStr(Fallback3(k, i))))
                 [] OTHER -> r.f[k].tag # "absent"

HasAllRequired(p, r) == r.isdict /\ \A k \in RequiredFields(p) : r.f[k].tag # "absent"

\* C5: in phases 3 and 5 the validator returns exactly 5 items for every list.
C5_ExactlyFive ==
    (vdone /\ vphase \in {3, 5} /\ response.tag = "list") => Len(result) = 5

C5_Witness ==
    /\ vdone /\ vphase = 3 /\ response.tag = "list"
    /\ Len(response.items) = 6
    /\ \A i \in 1..6 : response.items[i].isdict
    /\ response.items[6] = DictItem(Partial(3))
    /\ Len(result) = 5

\* C7 as stated: in every phase a mapping item that lacks required fields is
\* kept, its missing fields filled (responses of at most 5 mapping items, so
\* that the cut to 5 plays no part); non-mappings are dropped; every item of
\* the result has all required fields.
C7_RepairKeepsItemEveryPhase ==
    (vdone /\ response.tag = "list") =>
        LET pos == PositionsOf(response.items, IsMapping)
        IN /\ \A j \in 1..Len(result) : HasAllRequired(vphase, result[j])
           /\ Len(pos) <= 5 =>
                 /\ Len(result) >= Len(pos)
                 /\ \A n \in 1..Len(pos) :
                       Retains(vphase, response.items[pos[n]], pos[n] - 1, result[n])

\* C7 amended: phases 2 and 3 keep a mapping item that lacks required fields
\* and fill them (phase 3: among the first 5 mapping items); phase 5 drops it,
\* keeping only the complete mapping items; in every phase non-mappings are
\* dropped and every item of the result has all required fields.
C7_RepairPerPhase ==
    (vdone /\ response.tag = "list") =>
        LET pos == PositionsOf(response.items, IsMapping)
            cpos == PositionsOf(response.items, IsComplete5)
        IN /\ \A j \in 1..Len(result) : HasAllRequired(vphase, result[j])
           /\ vphase = 2 =>
                 /\ Len(result) = Len(pos)
                 /\ \A n \in 1..Len(pos) :
                       Retains(2, response.items[pos[n]], pos[n] - 1, result[n])
           /\ vphase = 3 =>
                 \A n \in 1..Min(Len(pos), 5) :
                     Retains(3, response.items[pos[n]], pos[n] - 1, result[n])
           /\ vphase = 5 =>
                 /\ \A n \in 1..Min(Len(cpos), 5) :
                       Retains(5, response.items[cpos[n]], cpos[n] - 1, result[n])
                 /\ \A n \in (Min(Len(cpos), 5) + 1)..Len(result) : result[n] = PadItem5

C7_Witness ==
    /\ vdone /\ vphase = 2 /\ response.tag = "list"
    /\ response.items = <<NonDictItem(2), DictItem(Partial(2)), DictItem(FullB(2))>>
    /\ Len(result) = 2
    /\ result[1].f["topic_name"] = T("Geometry")
    /\ result[1].f["test_name"] = T("T1")

\* The validator of phase p on a bare list of items.
ValidateList(p, items) ==
    CASE p = 2 -> validate_and_repair_response(ListResponse(2, items), SubjectChunk)
      [] p = 3 -> validate_and_repair_insights(ListResponse(3, items))
      [] OTHER -> validate_insights(ListResponse(5, items))

IsWrapper(resp) == resp.tag = "dict" /\ resp.inner.tag # "absent"
IsBareMapping(resp) == resp.tag = "dict" /\ resp.inner.tag = "absent"

\* C8 as stated: in every phase a mapping with the key "insights" gives what
\* the value under the key gives, a bare mapping that is an item (it has all
\* required fields) gives what the one-element list gives, and a value that is
\* not a list after unwrapping gives the empty result.
C8_UnwrapEveryPhase ==
    vdone =>
        /\ (IsWrapper(response) /\ response.inner.tag = "list") =>
              result = ValidateList(vphase, response.inner.items)
        /\ (IsWrapper(response) /\ response.inner.tag # "list") => result = <<>>
        /\ (IsBareMapping(response) /\ HasAllRequired(vphase, DictItem(response.fields))) =>
              result = ValidateList(vphase, <<DictItem(response.fields)>>)
        /\ response.tag = "scalar" => result = <<>>

\* C8 amended: phase 3 unwraps "insights" and takes any other mapping as a
\* one-element list; phase 5 unwraps "insights" and refuses a bare mapping;
\* phase 2 takes a mapping with the key "topic_name" as a one-element list
\* and refuses any other mapping, one with the key "insights" included;
\* a value that is not a list after the phase's unwrapping gives the empty
\* result.
C8_UnwrapPerPhase ==
    vdone =>
        /\ (vphase \in {3, 5} /\ IsWrapper(response)) =>
              IF response.inner.tag = "list"
              THEN result = ValidateList(vphase, response.inner.items)
              ELSE result = <<>>
        /\ (vphase = 3 /\ IsBareMapping(response)) =>
              result = ValidateList(3, <<DictItem(response.fields)>>)
        /\ (vphase = 5 /\ IsBareMapping(response)) => result = <<>>
        /\ (vphase = 2 /\ response.tag = "dict") =>
              IF response.fields["topic_name"].tag # "absent"
              THEN result = ValidateList(2, <<DictItem(response.fields)>>)
              ELSE result = <<>>
        /\ response.tag = "scalar" => result = <<>>

C8_Witness ==
    /\ vdone /\ vphase = 3 /\ IsWrapper(response)
    /\ response.inner.items = <<DictItem(Partial(3)), DictItem(FullA(3))>>
    /\ Len(result) = 5
    /\ result[2] = DictItem(FullA(3))

(***************************************************************************)
(* Phases 3 and 5: the analyzers and their process() loops                 *)
(***************************************************************************)
\* What a model call can do: raise, or return a response.
CallRaises == [kind |-> "raise", resp |-> JScalar]
CallReturns(resp) == [kind |-> "return", resp |-> resp]

\* The lists a model call returns here: n times the same item, for every
\* item and every n up to MaxItems, and every list of two items.
CallLists(p) ==
    { [i \in 1..n |-> it] : n \in 0..MaxItems, it \in ItemUniverse(p) }
    \cup [1..2 -> ItemUniverse(p)]

CallResponses(p) ==
    { ListResponse(p, l) : l \in CallLists(p) }
    \cup { DictResponse(NoFields(p), [tag |-> "list", items |-> l]) :
              l \in SeqsUpTo(ItemUniverse(p), 1) }
    \cup { DictResponse(NoFields(p), [tag |-> "scalar", items |-> <<>>]) }
    \cup { DictResponse(f, InnerAbsent) : f \in {FullA(p), Partial(p)} }
    \cup { ScalarResponse(p) }

CallOutcomes(p) == {CallRaises} \cup { CallReturns(r) : r \in CallResponses(p) }

Students == [i \in 1..MaxStudents |-> i]

Five(item) == [i \in 1..5 |-> item]

\* phase 3, lines 102-112: the validator did not return 5 items
InvalidFallback3(student_id) ==
    Five(DictItem([NoFields(3) EXCEPT
        !["insight"] = JStr(<<"Pattern analysis incomplete for student ", ToString(student_id)>>),
        !["recommendation"] = T("Manual review of performance data recommended"),
        !["citation"] = T("Analysis error occurred")]))

\* phase 3, lines 117-127: an exception was caught
ErrorFallback3(student_id) ==
    Five(DictItem([NoFields(3) EXCEPT
        !["insight"] = JStr(<<"Analysis failed for student ", ToString(student_id)>>),
        !["recommendation"] = T("Please review performance data manually"),
        !["citation"] = JStr(<<"Error: ", "e">>)]))

\* An analyzer without its except clause: the exception of the call leaves it.
analyze_student_patterns_no_except(student_id, outcome) ==
    IF outcome.kind = "raise" THEN [raised |-> TRUE, insights |-> <<>>]
    ELSE LET validated_insights == validate_and_repair_insights(outcome.resp)
         IN [raised |-> FALSE,
             insights |-> IF Len(validated_insights) # 5
                          THEN InvalidFallback3(student_id) ELSE validated_insights]

\* phase 3, lines 79-127: [raised |-> an exception leaves the function,
\* insights |-> the list returned]
analyze_student_patterns(student_id, outcome) ==
    IF outcome.kind = "raise"
    THEN [raised |-> FALSE, insights |-> ErrorFallback3(student_id)]
    ELSE LET validated_insights == validate_and_repair_insights(outcome.resp)
         IN [raised |-> FALSE,
             insights |-> IF Len(validated_insights) # 5
                          THEN InvalidFallback3(student_id) ELSE validated_insights]

\* phase 5, lines 98-111
InvalidFallback5 ==
    Five(DictItem([NoFields(5) EXCEPT
        !["topic"] = T("General"), !["subject"] = T("Overall"),
        !["accuracy"] = JNum("0.0"),
        !["problem"] = T("Pattern analysis incomplete"),
        !["action"] = T("Review weak topics and practice with focused effort"),
        !["citation"] = T("Error during pattern detection")]))

\* phase 5, lines 116-129
ErrorFallback5 ==
    Five(DictItem([NoFields(5) EXCEPT
        !["topic"] = T("General"), !["subject"] = T("Overall"),
        !["accuracy"] = JNum("0.0"),
        !["problem"] = T("Error during pattern analysis"),
        !["action"] = T("Review performance data and practice weak topics systematically"),
        !["citation"] = JStr(<<"Analysis error: ", "e">>)]))

\* phase 5, lines 75-129
generate_insights(student_id, outcome) ==
    IF outcome.kind = "raise"
    THEN [raised |-> FALSE, insights |-> ErrorFallback5]
    ELSE LET validated == validate_insights(outcome.resp)
         IN [raised |-> FALSE,
             insights |-> IF Len(validated) # 5 THEN InvalidFallback5 ELSE validated]

\* How the history names what the model call did.
CallKind(outcome) == IF outcome.kind = "raise" THEN "raise" ELSE outcome.resp.tag

AnalyzeInit ==
    /\ aphase \in {3, 5}
    /\ aidx = 0
    /\ all_insights = <<>>
    /\ callKinds = <<>>
    /\ aborted = FALSE
    /\ StoreIdle
    /\ ValIdle
    /\ MergeIdle
    /\ GroupIdle
    /\ MetricsIdle
    /\ ResumeIdle
    /\ IndexIdle
    /\ Phase2Idle
    /\ AggIdle
    /\ ClassifyIdle

\* One turn of the loop of process(): the analyzer's call for the next
\* student, and the entry made in all_insights.
ProcessStep(r, outcome) ==
    /\ callKinds' = Append(callKinds, CallKind(outcome))
    /\ IF r.raised
       THEN /\ aborted' = TRUE
            /\ UNCHANGED <<aidx, all_insights>>
       ELSE /\ all_insights' = Append(all_insights,
                                      [student_id |-> Students[aidx + 1], insights |-> r.insights])
            /\ aidx' = aidx + 1
            /\ UNCHANGED aborted
    /\ UNCHANGED <<aphase, storeVars, valVars, mergeVars, groupVars, metricVars, resumeVars, indexVars, phase2Vars, aggVars, classVars>>

\* phase 3, process(), lines 147-158
Process3 ==
    /\ aphase = 3 /\ ~aborted /\ aidx < Len(Students)
    /\ \E outcome \in CallOutcomes(3) :
          ProcessStep(analyze_student_patterns(Students[aidx + 1], outcome), outcome)

\* phase 5, process(), lines 149-160
Process5 ==
    /\ aphase = 5 /\ ~aborted /\ aidx < Len(Students)
    /\ \E outcome \in CallOutcomes(5) :
          ProcessStep(generate_insights(Students[aidx + 1], outcome), outcome)

AnalyzeNext == Process3 \/ Process5

SpecAnalyze == AnalyzeInit /\ [][AnalyzeNext]_vars

\* C6: whatever the model call does for a student (raises, returns a value
\* that is not a list, returns malformed items), no exception leaves the
\* analyzer, the student gets an entry of exactly 5 items that have all
\* required fields, and process() has an entry for every student handled.
C6_PerUnitRecovery ==
    /\ ~aborted
    /\ Len(all_insights) = aidx
    /\ Len(callKinds) = aidx
    /\ \A i \in 1..Len(all_insights) :
          /\ all_insights[i].student_id = Students[i]
          /\ Len(all_insights[i].insights) = 5
          /\ \A j \in 1..5 : HasAllRequired(aphase, all_insights[i].insights[j])

C6_Witness ==
    /\ aphase = 3
    /\ aidx = Len(Students)
    /\ callKinds[1] = "raise"
    /\ callKinds[2] = "scalar"
    /\ Len(all_insights) = Len(Students)
    /\ all_insights[1].insights = ErrorFallback3(Students[1])

(***************************************************************************)
(* Phase 1: merge_data.process                                             *)
(*                                                                         *)
(* A CSV cell is NaN (blank) or a string; strings are sequences of         *)
(* characters. A record keeps the fields the merge decides; question_text  *)
(* and options_map are copied from the question and left out.              *)
(***************************************************************************)
NaN == [nan |-> TRUE, s |-> <<>>]
Cell(s) == [nan |-> FALSE, s |-> s]

\* str.upper(), character by character
UpperChar(c) ==
    CASE c = "a" -> "A" [] c = "b" -> "B" [] c = "c" -> "C"
      [] c = "d" -> "D" [] c = "e" -> "E" [] c = "n" -> "N"
      [] OTHER -> c

Upper(s) == [i \in 1..Len(s) |-> UpperChar(s[i])]

\* str(cell): a blank cell reads as the float nan
CellStr(cell) == IF cell.nan THEN <<"n", "a", "n">> ELSE cell.s

\* Lines 44-78: the questions of questionpaper.json, by number.
QuestionMap ==
    [q \in {1} |-> [subject |-> "Math", chapter |-> "Ch1", topic |-> "Algebra"]]

StudentCols == <<"S1", "S2">>

AnswerCells == { NaN, Cell(<<"A">>), Cell(<<" ", "b">>), Cell(<<"E">>), Cell(<<" ">>) }

ResponseCells == { NaN, Cell(<<"A">>), Cell(<<" ", "b">>), Cell(<<"E">>) }

AnswerKeys ==
    {<<>>}
    \cup { <<[q |-> 1, cell |-> c]>> : c \in AnswerCells }
    \cup { <<[q |-> 1, cell |-> Cell(<<"E">>)], [q |-> 1, cell |-> Cell(<<"c">>)]>> }

ResponseRows ==
    { [q |-> q, cells |-> cs] :
          q \in {1, 2}, cs \in [1..Len(StudentCols) -> ResponseCells] }

ResponseSheets == SeqsUpTo(ResponseRows, MaxRows)

\* Lines 89-93: answer_map, a later row of the answer key replacing an
\* earlier one; a question without a row is mapped to the empty string here
\* (answer_map.get gives None, which is as false as "").
RECURSIVE BuildAnswerMap(_, _)
BuildAnswerMap(rows, answer_map) ==
    IF rows = <<>> THEN answer_map
    ELSE BuildAnswerMap(Tail(rows),
             [answer_map EXCEPT ![Head(rows).q] = Upper(Strip(CellStr(Head(rows).cell)))])

NoAnswers == [q \in {1, 2} |-> <<>>]

ValidOptions == { <<"A">>, <<"B">>, <<"C">>, <<"D">> }

\* A coercion that stores whatever the cell holds.
CoerceResponseKeepAll(cell) ==
    IF cell.nan THEN <<>> ELSE Upper(Strip(CellStr(cell)))

\* Lines 127-131
CoerceResponse(cell) ==
    LET selected_option == IF cell.nan THEN <<>> ELSE Upper(Strip(CellStr(cell)))
    IN IF selected_option \notin ValidOptions THEN <<>> ELSE selected_option

\* Lines 126-143: the records of one row
RowRecords(row, correct_option) ==
    [c \in 1..Len(StudentCols) |->
        [student_id |-> StudentCols[c],
         question_id |-> row.q,
         subject |-> QuestionMap[row.q].subject,
         chapter |-> QuestionMap[row.q].chapter,
         topic |-> QuestionMap[row.q].topic,
         correct_option |-> correct_option,
         student_selected_option |-> CoerceResponse(row.cells[c])]]

\* A loop that stops at a row whose question is not in the question paper.
RECURSIVE MergeRowsStopAtUnknown(_, _, _)
MergeRowsStopAtUnknown(rows, answer_map, merged_data) ==
    IF rows = <<>> THEN [raised |-> FALSE, merged_data |-> merged_data]
    ELSE LET row == Head(rows)
         IN IF row.q \notin DOMAIN QuestionMap
            THEN [raised |-> TRUE, merged_data |-> merged_data]
            ELSE IF answer_map[row.q] = <<>>
                 THEN [raised |-> TRUE, merged_data |-> merged_data]
                 ELSE MergeRowsStopAtUnknown(Tail(rows), answer_map,
                                merged_data \o RowRecords(row, answer_map[row.q]))

\* Lines 110-143: the loop over the rows of the response sheet
RECURSIVE MergeRows(_, _, _)
MergeRows(rows, answer_map, merged_data) ==
    IF rows = <<>> THEN [raised |-> FALSE, merged_data |-> merged_data]
    ELSE LET row == Head(rows)
         IN IF row.q \notin DOMAIN QuestionMap
            THEN MergeRows(Tail(rows), answer_map, merged_data)
            ELSE IF answer_map[row.q] = <<>>
                 THEN [raised |-> TRUE, merged_data |-> merged_data]
                 ELSE MergeRows(Tail(rows), answer_map,
                                merged_data \o RowRecords(row, answer_map[row.q]))

\* Lines 15-35: the input files. The question paper is the one of the class
\* ("own"), missing there but found in the folder of another class ("other",
\* lines 22-29; it holds the same questions here) or missing everywhere.
AllInputsPresent == [question_paper |-> "own", answer_key |-> TRUE, response_sheet |-> TRUE]

MergeInputFiles ==
    [question_paper : {"own", "other", "none"}, answer_key : BOOLEAN, response_sheet : BOOLEAN]

\* A check that misses the answer key.
InputMissingButAnswerKey(files) ==
    \/ files.question_paper = "none"
    \/ ~files.response_sheet

\* Lines 21-35
InputMissing(files) ==
    \/ files.question_paper = "none"
    \/ ~files.answer_key
    \/ ~files.response_sheet

MergeInit ==
    /\ answer_key \in AnswerKeys
    /\ response_sheet \in ResponseSheets
    /\ mergedFile = [written |-> FALSE, records |-> <<>>]
    /\ mstatus = "ready"
    /\ mfiles = AllInputsPresent
    /\ StoreIdle
    /\ ValIdle
    /\ AnIdle
    /\ GroupIdle
    /\ MetricsIdle
    /\ ResumeIdle
    /\ IndexIdle
    /\ Phase2Idle
    /\ AggIdle
    /\ ClassifyIdle

\* process(): merged.json is written (lines 148-149) only after the loop
MergeProcess ==
    /\ mstatus = "ready"
    /\ LET r == MergeRows(response_sheet, BuildAnswerMap(answer_key, NoAnswers), <<>>)
       IN IF InputMissing(mfiles) \/ r.raised
          THEN /\ mstatus' = "raised"
               /\ UNCHANGED mergedFile
          ELSE /\ mstatus' = "done"
               /\ mergedFile' = [written |-> TRUE, records |-> r.merged_data]
    /\ UNCHANGED <<answer_key, response_sheet, mfiles, storeVars, valVars, anVars, groupVars, metricVars, resumeVars, indexVars, phase2Vars, aggVars, classVars>>

MergeNext == MergeProcess

SpecMerge == MergeInit /\ [][MergeNext]_vars

\* The rows of the response sheet whose question is in the question paper.
IsKnownRow(row) == row.q \in DOMAIN QuestionMap

\* C9: every record of merged.json has student_selected_option in
\* {A, B, C, D, ""} and correct_option in {A, B, C, D}.
C9_OptionsInRange ==
    mstatus = "done" =>
        \A k \in 1..Len(mergedFile.records) :
            /\ mergedFile.records[k].student_selected_option \in ValidOptions \cup {<<>>}
            /\ mergedFile.records[k].correct_option \in ValidOptions

\* C10: the student_selected_option of each record is the cell of its row
\* and column trimmed and upper-cased if that is one of A, B, C, D, and ""
\* for every other cell (another letter, white space, a blank cell).
C10_ResponseCoercion ==
    mstatus = "done" =>
        LET known == PositionsOf(response_sheet, IsKnownRow)
            ncols == Len(StudentCols)
        IN /\ Len(mergedFile.records) = Len(known) * ncols
           /\ \A n \in 1..Len(known) : \A c \in 1..ncols :
                 LET cell == response_sheet[known[n]].cells[c]
                     rec == mergedFile.records[(n - 1) * ncols + c]
                 IN IF ~cell.nan /\ Upper(Strip(cell.s)) \in ValidOptions
                    THEN rec.student_selected_option = Upper(Strip(cell.s))
                    ELSE rec.student_selected_option = <<>>

C10_Witness ==
    /\ mstatus = "done"
    /\ Len(response_sheet) = 2
    /\ response_sheet[1] = [q |-> 1, cells |-> <<Cell(<<"E">>), Cell(<<" ", "b">>)>>]
    /\ response_sheet[2] = [q |-> 1, cells |-> <<NaN, Cell(<<"A">>)>>]
    /\ Len(mergedFile.records) = 4
    /\ mergedFile.records[1].student_selected_option = <<>>
    /\ mergedFile.records[2].student_selected_option = <<"B">>

\* The correct option the answer key gives for a question: the Answer cell
\* of the last row of the question, if it has one and the cell is not blank.
RECURSIVE LastAnswerCell(_, _, _)
LastAnswerCell(rows, q, found) ==
    IF rows = <<>> THEN found
    ELSE LastAnswerCell(Tail(rows), q, IF Head(rows).q = q THEN Head(rows).cell ELSE found)

HasCorrectOption(q) ==
    LET cell == LastAnswerCell(answer_key, q, NaN)
    IN ~cell.nan /\ Strip(cell.s) # <<>>

\* C11: once process() has run on a response sheet with a question number
\* that has no correct option in the answer key, it has raised and
\* merged.json is not written.
C11_MissingCorrectOptionFatal ==
    (/\ mstatus # "ready"
     /\ \E i \in 1..Len(response_sheet) : ~HasCorrectOption(response_sheet[i].q))
        => (mstatus = "raised" /\ ~mergedFile.written)

\* C12: a completed merge holds exactly one record for each row of the
\* response sheet whose question is in the question paper and each student
\* column, in row order then column order; a row of another question is
\* skipped and the merge of the remaining rows goes on.
C12_MergeCardinality ==
    LET known == PositionsOf(response_sheet, IsKnownRow)
        ncols == Len(StudentCols)
    IN /\ mstatus = "done" =>
            /\ Len(mergedFile.records) = Len(known) * ncols
            /\ \A n \in 1..Len(known) : \A c \in 1..ncols :
                  LET rec == mergedFile.records[(n - 1) * ncols + c]
                  IN /\ rec.student_id = StudentCols[c]
                     /\ rec.question_id = response_sheet[known[n]].q
       /\ (/\ mstatus # "ready"
           /\ \A n \in 1..Len(known) : HasCorrectOption(response_sheet[known[n]].q))
              => mstatus = "done"

C12_Witness ==
    /\ mstatus = "done"
    /\ Len(response_sheet) = 2
    /\ response_sheet[1].q = 2
    /\ response_sheet[2].q = 1
    /\ Len(mergedFile.records) = 2
    /\ mergedFile.records[2].student_id = "S2"

(***************************************************************************)
(* Topic metrics of phases 2 and 5                                         *)
(*                                                                         *)
(* A percentage rounded to 2 decimals is kept as its number of hundredths: *)
(* 66.67 is 6667. The metric functions read only the number of questions   *)
(* of each classification, so a topic is given here by these numbers.      *)
(***************************************************************************)

\* round(num / den, 0) as Python computes it on an exact quotient: to the
\* nearest integer, a tie going to the even neighbour.
RoundHalfEven(num, den) ==
    LET q == num \div den
        r == num % den
    IN IF 2 * r < den THEN q
       ELSE IF 2 * r > den THEN q + 1
       ELSE IF q % 2 = 0 THEN q ELSE q + 1

\* A rounding that cuts the digits after the second decimal.
PercentCut(count, total) == (10000 * count) \div total

\* round((count / total) * 100, 2), lines 53-54 of phase 2 and line 47 of
\* phase 5. The quotient of a tie (an odd number of eighths) is exact in
\* binary floating point, so the tie is rounded to the even neighbour.
Percent(count, total) == RoundHalfEven(10000 * count, total)

\* phase2/data_processor.py lines 42-59, after the counting of lines 46-51
TopicMetadata(total, correct_count, attempted_count) ==
    IF total = 0
    THEN [topic_accuracy |-> 0, attempt_ratio |-> 0]
    ELSE [topic_accuracy |-> Percent(correct_count, total),
          attempt_ratio |-> Percent(attempted_count, total)]

\* round(accuracy * weight, 2), phase 5 lines 51-52: the product of two
\* floats; when the exact product is a tie the float product lies on either
\* side of it, so both neighbours are outcomes.
WeightedAccuracyValues(accuracy, total) ==
    LET n == accuracy * total
        q == n \div 100
        r == n % 100
    IN IF r < 50 THEN {q} ELSE IF r > 50 THEN {q + 1} ELSE {q, q + 1}

\* phase5/data_processor.py lines 43-60: the results calculate_topic_metrics
\* can return for a topic of `total` questions, `wrong_count` of them wrong
TopicMetricsOutcomes(total, wrong_count) ==
    LET correct_count == total - wrong_count
        accuracy == IF total > 0 THEN Percent(correct_count, total) ELSE 0
    IN { [accuracy |-> accuracy,
          weighted_accuracy |-> w,
          total_questions |-> total,
          correct_count |-> correct_count,
          wrong_count |-> wrong_count] : w \in WeightedAccuracyValues(accuracy, total) }

TotalOf(cnt) == cnt.correct + cnt.wrong + cnt.unattempted

MetricsInit ==
    /\ \E c \in 0..MaxTotal : \E w \in 0..(MaxTotal - c) : \E u \in 0..(MaxTotal - c - w) :
          counts = [correct |-> c, wrong |-> w, unattempted |-> u]
    /\ metadata2 = [topic_accuracy |-> 0, attempt_ratio |-> 0]
    /\ metrics5 = [accuracy |-> 0, weighted_accuracy |-> 0, total_questions |-> 0,
                   correct_count |-> 0, wrong_count |-> 0]
    /\ cdone = {}
    /\ StoreIdle
    /\ ValIdle
    /\ AnIdle
    /\ MergeIdle
    /\ GroupIdle
    /\ ResumeIdle
    /\ IndexIdle
    /\ Phase2Idle
    /\ AggIdle
    /\ ClassifyIdle

\* Phase 2: calculate_topic_metadata on the questions of a topic
CalculateTopicMetadata ==
    /\ 2 \notin cdone
    /\ metadata2' = TopicMetadata(TotalOf(counts), counts.correct,
                                  counts.correct + counts.wrong)
    /\ cdone' = cdone \cup {2}
    /\ UNCHANGED <<counts, metrics5, storeVars, valVars, anVars, mergeVars, groupVars, resumeVars, indexVars, phase2Vars, aggVars, classVars>>

\* Phase 5: calculate_topic_metrics as group_by_topic calls it (lines
\* 93-100), for a topic with a question that is_wrong_question accepts: a
\* wrong or an unattempted one.
CalculateTopicMetrics ==
    /\ 5 \notin cdone
    /\ counts.wrong + counts.unattempted > 0
    /\ metrics5' \in TopicMetricsOutcomes(TotalOf(counts), counts.wrong + counts.unattempted)
    /\ cdone' = cdone \cup {5}
    /\ UNCHANGED <<counts, metadata2, storeVars, valVars, anVars, mergeVars, groupVars, resumeVars, indexVars, phase2Vars, aggVars, classVars>>

MetricsNext == CalculateTopicMetadata \/ CalculateTopicMetrics

SpecMetrics == MetricsInit /\ [][MetricsNext]_vars

\* C16: topic_accuracy and attempt_ratio of phase 2 and accuracy and
\* weighted_accuracy of phase 5 are in the range [0, 100] for a topic of
\* any number of questions.
C16_MetricBounds ==
    /\ 2 \in cdone =>
          /\ metadata2.topic_accuracy \in 0..10000
          /\ metadata2.attempt_ratio \in 0..10000
    /\ 5 \in cdone =>
          /\ metrics5.accuracy \in 0..10000
          /\ metrics5.weighted_accuracy \in 0..10000

(***************************************************************************)
(* Grouping of merged.json: phase 2 (group_by_student_subject_topic),      *)
(* phase 4 (aggregate_by_student, write_student_files) and phase 5         *)
(* (process_all_students).                                                 *)
(*                                                                         *)
(* A Python dict is a sequence of entries in insertion order. The options  *)
(* of a record are strings of characters as in phase 1; merged.json is     *)
(* read from disk, so an option in lower case is among the inputs.         *)
(***************************************************************************)
TopicsOfPaper ==
    { [subject |-> "Math", chapter |-> "Ch1", topic |-> "Algebra"],
      [subject |-> "Physics", chapter |-> "Ch2", topic |-> "Motion"] }

\* (correct_option, student_selected_option)
OptionPairs ==
    { << <<"A">>, <<"A">> >>, << <<"B">>, <<"b">> >>,
      << <<"A">>, <<"B">> >>, << <<"A">>, <<>> >> }

RecordKinds ==
    { [student_id |-> sid, subject |-> t.subject, chapter |-> t.chapter,
       topic |-> t.topic, correct_option |-> o[1], student_selected_option |-> o[2]] :
          sid \in {"S1", "S2"}, t \in TopicsOfPaper, o \in OptionPairs }
    \cup { [student_id |-> "", subject |-> "Math", chapter |-> "Ch1", topic |-> "Algebra",
            correct_option |-> <<"A">>, student_selected_option |-> <<"A">>] }

\* The i-th record of merged.json is about question i.
MergedRecord(kind, i) ==
    [student_id |-> kind.student_id, question_id |-> i, subject |-> kind.subject,
     chapter |-> kind.chapter, topic |-> kind.topic,
     correct_option |-> kind.correct_option,
     student_selected_option |-> kind.student_selected_option]

MergedInputs ==
    { [i \in 1..Len(ks) |-> MergedRecord(ks[i], i)] : ks \in SeqsUpTo(RecordKinds, MaxRecords) }

\* The values of a sequence in the order of their first occurrence: the keys
\* of a dict filled by appending.
RECURSIVE KeysInOrder(_, _)
KeysInOrder(values, seen) ==
    IF values = <<>> THEN seen
    ELSE KeysInOrder(Tail(values),
                     IF \E i \in 1..Len(seen) : seen[i] = Head(values)
                     THEN seen ELSE Append(seen, Head(values)))

\* A classification that never answers "unattempted".
determine_correctness_attempted(correct_option, student_selected) ==
    IF Upper(Strip(correct_option)) = Upper(Strip(student_selected))
    THEN "correct" ELSE "wrong"

\* phase2/data_processor.py lines 16-26
determine_correctness(correct_option, student_selected) ==
    IF student_selected = <<>> \/ Strip(student_selected) = <<>>
    THEN "unattempted"
    ELSE IF Upper(Strip(correct_option)) = Upper(Strip(student_selected))
         THEN "correct" ELSE "wrong"

\* Lines 29-37, without the question text and the options
build_question_object(question_data) ==
    [question_id |-> question_data.question_id,
     correct_answer |-> question_data.correct_option,
     student_selected_option |-> question_data.student_selected_option]

Correctness(q) == determine_correctness(q.correct_option, q.student_selected_option)

\* A selection that takes an unattempted question for a wrong one too.
QuestionsClassifiedLoose(topic_questions, correctness) ==
    LET Is(q) == \/ Correctness(q) = correctness
                 \/ (correctness = "wrong" /\ Correctness(q) = "unattempted")
        selected == SelectSeq(topic_questions, Is)
    IN [i \in 1..Len(selected) |-> build_question_object(selected[i])]

\* The question objects of the questions with one classification, lines 108-121
QuestionsClassified(topic_questions, correctness) ==
    LET Is(q) == Correctness(q) = correctness
        selected == SelectSeq(topic_questions, Is)
    IN [i \in 1..Len(selected) |-> build_question_object(selected[i])]

\* A metadata that cuts the percentages instead of rounding them.
calculate_topic_metadata_cut(topic_questions) ==
    LET total == Len(topic_questions)
        IsCorrect(q) == Correctness(q) = "correct"
        IsAttempted(q) == Correctness(q) # "unattempted"
    IN IF total = 0 THEN [topic_accuracy |-> 0, attempt_ratio |-> 0]
       ELSE [topic_accuracy |-> PercentCut(Len(SelectSeq(topic_questions, IsCorrect)), total),
             attempt_ratio |-> PercentCut(Len(SelectSeq(topic_questions, IsAttempted)), total)]

\* Lines 40-59
calculate_topic_metadata(topic_questions) ==
    LET IsCorrect(q) == Correctness(q) = "correct"
        IsAttempted(q) == Correctness(q) # "unattempted"
    IN TopicMetadata(Len(topic_questions),
                     Len(SelectSeq(topic_questions, IsCorrect)),
                     Len(SelectSeq(topic_questions, IsAttempted)))

\* A structure that leaves the unattempted questions out.
TopicStructureAttempted(topic_name, topic_questions) ==
    [topic_name |-> topic_name,
     metadata |-> calculate_topic_metadata(topic_questions),
     strength |-> [correct_questions |-> QuestionsClassified(topic_questions, "correct")],
     weakness |-> [wrong_questions |-> QuestionsClassified(topic_questions, "wrong"),
                   unattempted_questions |-> <<>>]]

\* Lines 99-133: the structure of one topic
TopicStructure(topic_name, topic_questions) ==
    [topic_name |-> topic_name,
     metadata |-> calculate_topic_metadata(topic_questions),
     strength |-> [correct_questions |-> QuestionsClassified(topic_questions, "correct")],
     weakness |-> [wrong_questions |-> QuestionsClassified(topic_questions, "wrong"),
                   unattempted_questions |-> QuestionsClassified(topic_questions, "unattempted")]]

\* Lines 91-142: the chunk of one subject
SubjectChunkOf(test_name, subject, subject_questions) ==
    LET topic_names == KeysInOrder([i \in 1..Len(subject_questions) |-> subject_questions[i].topic], <<>>)
        TopicQuestions(name) ==
            LET In(q) == q.topic = name IN SelectSeq(subject_questions, In)
    IN [test_name |-> test_name,
        subject |-> subject,
        topics |-> [i \in 1..Len(topic_names) |->
                       TopicStructure(topic_names[i], TopicQuestions(topic_names[i]))]]

\* Lines 62-147
group_by_student_subject_topic(merged, test_name) ==
    LET HasId(r) == r.student_id # ""
        with_id == SelectSeq(merged, HasId)
        student_ids == KeysInOrder([i \in 1..Len(with_id) |-> with_id[i].student_id], <<>>)
        Questions(sid) == LET Of(r) == r.student_id = sid IN SelectSeq(with_id, Of)
        Chunks(questions) ==
            LET subjects == KeysInOrder([i \in 1..Len(questions) |-> questions[i].subject], <<>>)
                SubjectQuestions(subject) ==
                    LET In(q) == q.subject = subject IN SelectSeq(questions, In)
            IN [i \in 1..Len(subjects) |->
                   SubjectChunkOf(test_name, subjects[i], SubjectQuestions(subjects[i]))]
    IN [i \in 1..Len(student_ids) |->
           [student_id |-> student_ids[i], chunks |-> Chunks(Questions(student_ids[i]))]]

\* Line 181 for the class folder class_7
TestName == "7"

\* The class folder of the grouping phases
ClassName == "class_7"

\* The class folders that hold a phase1/merged.json
AvailableClasses == {"class_7", "class_8"}

RecordWithTest(record, class_name) ==
    [student_id |-> record.student_id, question_id |-> record.question_id,
     subject |-> record.subject, chapter |-> record.chapter, topic |-> record.topic,
     correct_option |-> record.correct_option,
     student_selected_option |-> record.student_selected_option,
     test_name |-> class_name]

\* A tagging that writes the test_name into the loaded record itself.
TagRecordInPlace(record, class_name) ==
    [copy |-> RecordWithTest(record, class_name),
     source |-> RecordWithTest(record, class_name)]

\* Lines 142-143: record.copy(), and the test_name set on the copy; the
\* loaded record stays as it is.
TagRecord(record, class_name) ==
    [copy |-> RecordWithTest(record, class_name), source |-> record]

\* Lines 135-139: the records of a class that have a student_id
WithStudentId(merged_data) ==
    LET HasId(r) == r.student_id # ""
    IN SelectSeq(merged_data, HasId)

\* Lines 127-145: the copies appended over the loop of the classes, in the
\* order they are appended
RECURSIVE TaggedRecords(_, _)
TaggedRecords(selected_classes, merged_of) ==
    IF selected_classes = <<>> THEN <<>>
    ELSE LET class_name == Head(selected_classes)
             with_id == WithStudentId(merged_of[class_name])
         IN [i \in 1..Len(with_id) |-> TagRecord(with_id[i], class_name).copy]
            \o TaggedRecords(Tail(selected_classes), merged_of)

\* phase4/aggregator.py lines 112-147: student_records, a dict filled by
\* appending (merged_of: what load_merged_data returns for each class).
aggregate_by_student(selected_classes, merged_of) ==
    LET tagged == TaggedRecords(selected_classes, merged_of)
        student_ids == KeysInOrder([i \in 1..Len(tagged) |-> tagged[i].student_id], <<>>)
        Records(sid) ==
            LET Of(r) == r.student_id = sid
            IN SelectSeq(tagged, Of)
    IN [i \in 1..Len(student_ids) |->
           [student_id |-> student_ids[i], records |-> Records(student_ids[i])]]

\* The loaded records of each class once aggregate_by_student has returned
LoadedAfter(selected_classes, merged_of) ==
    [c \in DOMAIN merged_of |->
        IF \E k \in 1..Len(selected_classes) : selected_classes[k] = c
        THEN [i \in 1..Len(merged_of[c]) |->
                 IF merged_of[c][i].student_id # ""
                 THEN TagRecord(merged_of[c][i], c).source
                 ELSE merged_of[c][i]]
        ELSE merged_of[c]]

\* Lines 150-176: one file per student

write_student_files(student_data) ==
    [i \in 1..Len(student_data) |->
        [student_id |-> student_data[i].student_id,
         total_records |-> Len(student_data[i].records),
         records |-> student_data[i].records]]

\* A filter that accepts only the questions answered with another option.
is_wrong_question_attempted(record) ==
    LET correct == Upper(Strip(record.correct_option))
        selected == Upper(Strip(record.student_selected_option))
    IN selected # correct /\ selected # <<>>

\* phase5/data_processor.py lines 15-29
is_wrong_question(record) ==
    LET correct == Upper(Strip(record.correct_option))
        selected == Upper(Strip(record.student_selected_option))
    IN selected # correct \/ selected = <<>>

\* Lines 32-60 on the questions of a topic (one outcome; the outcomes differ
\* only for topics of more than 100 questions)
calculate_topic_metrics(all_questions, wrong_questions) ==
    CHOOSE m \in TopicMetricsOutcomes(Len(all_questions), Len(wrong_questions)) : TRUE

\* Lines 102-112, without the question text and the options
WrongQuestionDetails(q) ==
    [question_id |-> q.question_id,
     correct_option |-> q.correct_option,
     student_selected_option |-> q.student_selected_option,
     test_name |-> q.test_name]

\* Lines 91-124: the entry of one topic, if it has one
TopicGroup(topic, all_questions) ==
    LET wrong_questions == SelectSeq(all_questions, is_wrong_question)
        metrics == calculate_topic_metrics(all_questions, wrong_questions)
    IN IF wrong_questions = <<>> THEN <<>>
       ELSE << [topic_name |-> topic,
                chapter |-> all_questions[1].chapter,
                subject |-> all_questions[1].subject,
                accuracy |-> metrics.accuracy,
                weighted_accuracy |-> metrics.weighted_accuracy,
                total_questions |-> metrics.total_questions,
                correct_count |-> metrics.correct_count,
                wrong_count |-> metrics.wrong_count,
                wrong_questions |-> [i \in 1..Len(wrong_questions) |->
                                        WrongQuestionDetails(wrong_questions[i])]] >>

\* A grouping that keeps the topics without a wrong question.
group_by_topic_keep_all(student_records) ==
    LET topics == KeysInOrder([i \in 1..Len(student_records) |-> student_records[i].topic], <<>>)
        AllQuestions(topic) ==
            LET In(q) == q.topic = topic IN SelectSeq(student_records, In)
        Entry(topic) ==
            LET all_questions == AllQuestions(topic)
                wrong_questions == SelectSeq(all_questions, is_wrong_question)
                metrics == calculate_topic_metrics(all_questions, wrong_questions)
            IN [topic_name |-> topic,
                chapter |-> all_questions[1].chapter,
                subject |-> all_questions[1].subject,
                accuracy |-> metrics.accuracy,
                weighted_accuracy |-> metrics.weighted_accuracy,
                total_questions |-> metrics.total_questions,
                correct_count |-> metrics.correct_count,
                wrong_count |-> metrics.wrong_count,
                wrong_questions |-> [i \in 1..Len(wrong_questions) |->
                                        WrongQuestionDetails(wrong_questions[i])]]
    IN [i \in 1..Len(topics) |-> Entry(topics[i])]

\* Lines 63-126
group_by_topic(student_records) ==
    LET topics == KeysInOrder([i \in 1..Len(student_records) |-> student_records[i].topic], <<>>)
        AllQuestions(topic) ==
            LET In(q) == q.topic = topic IN SelectSeq(student_records, In)
    IN Flatten([i \in 1..Len(topics) |-> TopicGroup(topics[i], AllQuestions(topics[i]))])

\* Lines 181-198: the entry of one student file, if it has one
StudentEntry(file) ==
    LET records == file.records
        topic_groups == group_by_topic(records)
    IN IF records = <<>> THEN <<>>
       ELSE IF topic_groups = <<>> THEN <<>>
       ELSE << [student_id |-> file.student_id, topic_groups |-> topic_groups] >>

\* Lines 157-202
process_all_students(student_files) ==
    Flatten([i \in 1..Len(student_files) |-> StudentEntry(student_files[i])])

GroupInit ==
    /\ mergedInput \in MergedInputs
    /\ student_chunks = <<>>
    /\ p4students = <<>>
    /\ all_student_data = <<>>
    /\ gdone = {}
    /\ StoreIdle
    /\ ValIdle
    /\ AnIdle
    /\ MergeIdle
    /\ MetricsIdle
    /\ ResumeIdle
    /\ IndexIdle
    /\ Phase2Idle
    /\ AggIdle
    /\ ClassifyIdle

\* Phase 2: data_processor.process on merged.json (lines 175-188)
GroupPhase2 ==
    /\ 2 \notin gdone
    /\ student_chunks' = group_by_student_subject_topic(mergedInput, TestName)
    /\ gdone' = gdone \cup {2}
    /\ UNCHANGED <<mergedInput, p4students, all_student_data,
                   storeVars, valVars, anVars, mergeVars, metricVars, resumeVars, indexVars, phase2Vars, aggVars, classVars>>

\* Phase 4: aggregate_by_student and write_student_files
AggregatePhase4 ==
    /\ 4 \notin gdone
    /\ p4students' = write_student_files(aggregate_by_student(<<ClassName>>, [c \in {ClassName} |-> mergedInput]))
    /\ gdone' = gdone \cup {4}
    /\ UNCHANGED <<mergedInput, student_chunks, all_student_data,
                   storeVars, valVars, anVars, mergeVars, metricVars, resumeVars, indexVars, phase2Vars, aggVars, classVars>>

\* Phase 5: process_all_students on the files phase 4 has written (without
\* the directory of phase 4 it returns {} at once, lines 166-168)
ProcessAllStudents5 ==
    /\ 5 \notin gdone
    /\ 4 \in gdone
    /\ all_student_data' = process_all_students(p4students)
    /\ gdone' = gdone \cup {5}
    /\ UNCHANGED <<mergedInput, student_chunks, p4students,
                   storeVars, valVars, anVars, mergeVars, metricVars, resumeVars, indexVars, phase2Vars, aggVars, classVars>>

GroupNext == GroupPhase2 \/ AggregatePhase4 \/ ProcessAllStudents5

SpecGroup == GroupInit /\ [][GroupNext]_vars

\* The records of merged.json of one student, subject and topic
TopicRecords(sid, subject, topic) ==
    LET In(r) == r.student_id = sid /\ r.subject = subject /\ r.topic = topic
    IN SelectSeq(mergedInput, In)

QuestionIds(questions) == { questions[i].question_id : i \in 1..Len(questions) }

\* C13: in every topic of every subject chunk of every student the correct,
\* wrong and unattempted lists share no question, hold together exactly the
\* student's questions of the topic, and their lengths add up to the number
\* of these questions.
C13_Partition ==
    2 \in gdone =>
        \A s \in 1..Len(student_chunks) :
        \A c \in 1..Len(student_chunks[s].chunks) :
        \A t \in 1..Len(student_chunks[s].chunks[c].topics) :
            LET topic == student_chunks[s].chunks[c].topics[t]
                correct == topic.strength.correct_questions
                wrong == topic.weakness.wrong_questions
                unattempted == topic.weakness.unattempted_questions
                records == TopicRecords(student_chunks[s].student_id,
                                        student_chunks[s].chunks[c].subject,
                                        topic.topic_name)
            IN /\ QuestionIds(correct) \cap QuestionIds(wrong) = {}
               /\ QuestionIds(correct) \cap QuestionIds(unattempted) = {}
               /\ QuestionIds(wrong) \cap QuestionIds(unattempted) = {}
               /\ QuestionIds(correct) \cup QuestionIds(wrong) \cup QuestionIds(unattempted)
                     = QuestionIds(records)
               /\ Len(correct) + Len(wrong) + Len(unattempted) = Len(records)

\* One student has a topic with a correct, a wrong and an unattempted question.
C13_Witness ==
    /\ 2 \in gdone
    /\ Len(student_chunks) = 1
    /\ Len(student_chunks[1].chunks) = 1
    /\ Len(student_chunks[1].chunks[1].topics) = 1
    /\ Len(student_chunks[1].chunks[1].topics[1].strength.correct_questions) = 1
    /\ Len(student_chunks[1].chunks[1].topics[1].weakness.wrong_questions) = 1
    /\ Len(student_chunks[1].chunks[1].topics[1].weakness.unattempted_questions) = 1

\* The classification the two options of a record call for.
ClassOfOptions(correct_option, student_selected_option) ==
    IF student_selected_option = <<>> THEN "unattempted"
    ELSE IF Upper(correct_option) = Upper(student_selected_option) THEN "correct"
    ELSE "wrong"

\* The questions phase 2 has put in the list of one classification of a topic
ListedAs(topic, class) ==
    CASE class = "correct" -> QuestionIds(topic.strength.correct_questions)
      [] class = "wrong" -> QuestionIds(topic.weakness.wrong_questions)
      [] OTHER -> QuestionIds(topic.weakness.unattempted_questions)

\* C14: phase 2 classifies each record by its two options alone:
\* "unattempted" if the selected option is empty, "correct" if the options
\* are equal ignoring case, "wrong" otherwise; the question is in the list of
\* that classification in the topic of its student and subject (a record
\* without student_id is in no list).
C14_Classification ==
    2 \in gdone =>
        \A i \in 1..Len(mergedInput) :
            LET r == mergedInput[i]
            IN r.student_id # "" =>
               \E s \in 1..Len(student_chunks) :
               \E c \in 1..Len(student_chunks[s].chunks) :
               \E t \in 1..Len(student_chunks[s].chunks[c].topics) :
                  /\ student_chunks[s].student_id = r.student_id
                  /\ student_chunks[s].chunks[c].subject = r.subject
                  /\ student_chunks[s].chunks[c].topics[t].topic_name = r.topic
                  /\ r.question_id \in
                        ListedAs(student_chunks[s].chunks[c].topics[t],
                                 ClassOfOptions(r.correct_option, r.student_selected_option))

\* An answer in lower case to a question with the same option in upper case
\* is listed as correct, next to an unattempted and a wrong question.
C14_Witness ==
    /\ 2 \in gdone
    /\ Len(mergedInput) = 3
    /\ mergedInput[1].correct_option = <<"B">>
    /\ mergedInput[1].student_selected_option = <<"b">>
    /\ mergedInput[2].student_selected_option = <<>>
    /\ mergedInput[3].student_selected_option = <<"B">>
    /\ mergedInput[3].correct_option = <<"A">>
    /\ Len(student_chunks) = 1
    /\ Len(student_chunks[1].chunks) = 1
    /\ Len(student_chunks[1].chunks[1].topics) = 1
    /\ ListedAs(student_chunks[1].chunks[1].topics[1], "correct") = {1}
    /\ ListedAs(student_chunks[1].chunks[1].topics[1], "unattempted") = {2}
    /\ ListedAs(student_chunks[1].chunks[1].topics[1], "wrong") = {3}

\* hundredths is the nearest number of hundredths to 100 * count / total
IsPercentOf(hundredths, count, total) ==
    LET d == hundredths * total - 10000 * count
    IN 2 * d <= total /\ 2 * (0 - d) <= total

\* C15: in every topic of the phase-2 grouping, topic_accuracy is
\* 100 * correct / total and attempt_ratio is 100 * (total - unattempted) /
\* total, each rounded to 2 decimals, for the lengths of the topic's own
\* correct and unattempted lists and the total of its three lists.
C15_TopicMetrics ==
    2 \in gdone =>
        \A s \in 1..Len(student_chunks) :
        \A c \in 1..Len(student_chunks[s].chunks) :
        \A t \in 1..Len(student_chunks[s].chunks[c].topics) :
            LET topic == student_chunks[s].chunks[c].topics[t]
                correct_count == Len(topic.strength.correct_questions)
                unattempted_count == Len(topic.weakness.unattempted_questions)
                total == correct_count + Len(topic.weakness.wrong_questions) + unattempted_count
            IN /\ total > 0
               /\ IsPercentOf(topic.metadata.topic_accuracy, correct_count, total)
               /\ IsPercentOf(topic.metadata.attempt_ratio, total - unattempted_count, total)

\* A topic of three questions, one correct, one wrong, one unattempted:
\* 33.33 and 66.67
C15_Witness ==
    /\ 2 \in gdone
    /\ Len(student_chunks) = 1
    /\ Len(student_chunks[1].chunks) = 1
    /\ Len(student_chunks[1].chunks[1].topics) = 1
    /\ Len(student_chunks[1].chunks[1].topics[1].strength.correct_questions) = 1
    /\ Len(student_chunks[1].chunks[1].topics[1].weakness.unattempted_questions) = 1
    /\ Len(student_chunks[1].chunks[1].topics[1].weakness.wrong_questions) = 1
    /\ student_chunks[1].chunks[1].topics[1].metadata.topic_accuracy = 3333
    /\ student_chunks[1].chunks[1].topics[1].metadata.attempt_ratio = 6667

\* The student has a record of the topic with one of the classifications
HasRecordClassified(sid, topic, classes) ==
    \E i \in 1..Len(mergedInput) :
        /\ mergedInput[i].student_id = sid
        /\ mergedInput[i].topic = topic
        /\ ClassOfOptions(mergedInput[i].correct_option,
                          mergedInput[i].student_selected_option) \in classes

\* The topic is in the student's entry of the map of phase 5
InTopicMap(sid, topic) ==
    \E e \in 1..Len(all_student_data) :
        /\ all_student_data[e].student_id = sid
        /\ \E g \in 1..Len(all_student_data[e].topic_groups) :
              all_student_data[e].topic_groups[g].topic_name = topic

GroupStudents == { "S1", "S2" }

GroupTopics == { t.topic : t \in TopicsOfPaper }

\* C17 as stated: a topic is in the map of phase 5 only if the student has a
\* question of the topic classified "wrong" (answered, with another option).
C17_OnlyTopicsWithWrong ==
    5 \in gdone =>
        \A sid \in GroupStudents : \A topic \in GroupTopics :
            InTopicMap(sid, topic) => HasRecordClassified(sid, topic, {"wrong"})

\* C17: a topic is in the map of phase 5 exactly if the student has a
\* question of the topic that is wrong or unattempted (is_wrong_question);
\* a topic whose questions are all correct is absent.
C17_TopicsWithWrongOrUnattempted ==
    5 \in gdone =>
        \A sid \in GroupStudents : \A topic \in GroupTopics :
            InTopicMap(sid, topic) <=> HasRecordClassified(sid, topic, {"wrong", "unattempted"})

\* A student with an unattempted question in one topic and a correct answer
\* in the other: only the first topic is in the map.
C17_Witness ==
    /\ 5 \in gdone
    /\ Len(mergedInput) = 2
    /\ HasRecordClassified("S1", "Algebra", {"unattempted"})
    /\ HasRecordClassified("S1", "Motion", {"correct"})
    /\ InTopicMap("S1", "Algebra")
    /\ ~InTopicMap("S1", "Motion")

\* The student is in the map of phase 5
InStudentMap(sid) ==
    \E e \in 1..Len(all_student_data) : all_student_data[e].student_id = sid

NoEmptyTopicSet ==
    \A e \in 1..Len(all_student_data) : all_student_data[e].topic_groups # <<>>

\* C18 as stated: a student without a question classified "wrong" in any
\* topic is absent from the map of phase 5, and no student of the map has an
\* empty topic set.
C18_NoWrongStudentAbsent ==
    5 \in gdone =>
        /\ \A sid \in GroupStudents :
              (\A topic \in GroupTopics : ~HasRecordClassified(sid, topic, {"wrong"}))
                 => ~InStudentMap(sid)
        /\ NoEmptyTopicSet

\* C18: a student is in the map of phase 5 exactly if the student has a
\* wrong or unattempted question in some topic, and no student of the map
\* has an empty topic set.
C18_StudentExclusion ==
    5 \in gdone =>
        /\ \A sid \in GroupStudents :
              InStudentMap(sid) <=>
                 \E topic \in GroupTopics :
                     HasRecordClassified(sid, topic, {"wrong", "unattempted"})
        /\ NoEmptyTopicSet

\* One student with correct answers only, one with a wrong answer: only the
\* second is in the map.
C18_Witness ==
    /\ 5 \in gdone
    /\ Len(mergedInput) = 3
    /\ \A topic \in GroupTopics : ~HasRecordClassified("S1", topic, {"wrong", "unattempted"})
    /\ HasRecordClassified("S1", "Algebra", {"correct"})
    /\ HasRecordClassified("S2", "Algebra", {"wrong"})
    /\ ~InStudentMap("S1")
    /\ InStudentMap("S2")

\* The student file is present but not parseable, or parsed to something
\* that holds no list of insights.
IsMalformedStudentFile(file) ==
    \/ file.kind \in {"malformed", "nondict"}
    \/ (file.kind = "dict" /\ file.data["insights"].tag # "list")

\* C19: a phase-2 write on a student file that was present but malformed has
\* not raised, and the file now holds the student_id and the new insights
\* (the existing ones counted as empty).
C19_MalformedFileNonFatal ==
    (lastOp.op = "w2" /\ IsMalformedStudentFile(prevFile)) =>
        /\ ~raised
        /\ studentFile.kind = "dict"
        /\ studentFile.data["student_id"] = JStr(StudentId)
        /\ studentFile.data["insights"] = JList(MergeInsights(<<>>, {}, lastOp.arg))

(***************************************************************************)
(* Phase 2: analyze_subject_chunk and process(), a run that stops between  *)
(* two students and the rerun on the same input. Every student has the one *)
(* subject chunk SubjectChunk.                                             *)
(***************************************************************************)
Phase2Responses ==
    { ScalarResponse(2),
      ListResponse(2, <<DictItem(FullA(2))>>),
      ListResponse(2, <<DictItem(FullA(2)), DictItem(FullB(2))>>),
      ListResponse(2, <<DictItem(Partial(2))>>),
      ListResponse(2, <<NonDictItem(2)>>),
      DictResponse(FullB(2), InnerAbsent) }

Phase2Outcomes == {CallRaises} \cup { CallReturns(r) : r \in Phase2Responses }

\* {}
JEmptyMapping == [tag |-> "dict", items |-> <<>>]

\* Lines 81-84 and metadata_map.get(topic_name, {}): the metadata of the
\* chunk's topic of that name (the last one, were there two), {} if none.
MetadataMapGet(subject_chunk, topic_name) ==
    LET S == { i \in 1..Len(subject_chunk.topics) : T(subject_chunk.topics[i]) = topic_name }
    IN IF S = {} THEN JEmptyMapping
       ELSE subject_chunk.metadata[CHOOSE i \in S : \A j \in S : j <= i]

\* insight.get("topic_name", "Unknown")
TopicNameOrUnknown(item) ==
    IF item.f["topic_name"].tag = "absent" THEN T("Unknown") ELSE item.f["topic_name"]

\* A value that cannot be the key of a dict lookup (TypeError: unhashable).
Unhashable(v) == v.tag \in {"list", "dict"}

\* Lines 114-116: each validated insight gets the metadata of its topic_name.
MergeMetadata(validated_response, subject_chunk) ==
    [i \in 1..Len(validated_response) |->
        DictItem([validated_response[i].f EXCEPT
            !["topic_metadata"] =
                MetadataMapGet(subject_chunk, TopicNameOrUnknown(validated_response[i]))])]

\* phase2/llm_analyzer.py lines 99-111 and 124-136: one fallback insight
\* for each topic of the chunk
FallbackInsights2(subject_chunk, strength, weakness, learning) ==
    [i \in 1..Len(subject_chunk.topics) |->
        DictItem([NoFields(2) EXCEPT
            !["test_name"] = T(subject_chunk.test_name),
            !["subject"] = T(subject_chunk.subject),
            !["topic_name"] = T(subject_chunk.topics[i]),
            !["topic_metadata"] = MetadataMapGet(subject_chunk, T(subject_chunk.topics[i])),
            !["strength_insights"] = JList(<< <<strength>> >>),
            !["weakness_insights"] = JList(<< <<weakness>> >>),
            !["learning_recommendations"] = JList(<< <<learning>> >>)])]

\* Lines 73-136
analyze_subject_chunk(subject_chunk, outcome) ==
    LET validated_response == validate_and_repair_response(outcome.resp, subject_chunk)
        failed == FallbackInsights2(subject_chunk, "Analysis failed due to error.",
                                    "Analysis failed due to error.", "Please review manually.")
    IN IF outcome.kind = "raise" THEN failed
       ELSE IF validated_response = <<>>
       THEN FallbackInsights2(subject_chunk, "Insufficient data available.",
                              "Insufficient data available.", "Insufficient data available.")
       ELSE IF \E i \in 1..Len(validated_response) :
                  Unhashable(TopicNameOrUnknown(validated_response[i]))
       THEN failed
       ELSE MergeMetadata(validated_response, subject_chunk)

\* A JSON value as the string the key of an insight is made of
KeyWord(v) ==
    IF v.tag = "str" /\ Len(v.items[1]) = 1 THEN v.items[1][1] ELSE ToString(v.items)

\* The insight as the store keeps it: its two key fields and the rest
StoredInsight(item) ==
    Insight(KeyWord(item.f["test_name"]), KeyWord(item.f["topic_name"]),
            ToString(<<item.f["subject"], item.f["strength_insights"],
                       item.f["weakness_insights"], item.f["learning_recommendations"]>>))

StudentName(i) == ToString(Students[i])

ResumeInit ==
    /\ rfiles = [i \in 1..Len(Students) |-> FileAbsent]
    /\ rrun = 1
    /\ ridx = 0
    /\ rstatus = "running"
    /\ rsnapshot = <<>>
    /\ StoreIdle
    /\ ValIdle
    /\ AnIdle
    /\ MergeIdle
    /\ GroupIdle
    /\ MetricsIdle
    /\ IndexIdle
    /\ Phase2Idle
    /\ AggIdle
    /\ ClassifyIdle

\* One turn of the loop of process(), lines 152-169: the chunk of the next
\* student is analyzed and the student's file is written.
ProcessStudent2 ==
    /\ rstatus = "running"
    /\ ridx < Len(Students)
    /\ \E outcome \in Phase2Outcomes :
          LET topic_insights == analyze_subject_chunk(SubjectChunk, outcome)
              student_insights == [j \in 1..Len(topic_insights) |-> StoredInsight(topic_insights[j])]
              w == write_student_output(rfiles[ridx + 1], StudentName(ridx + 1), student_insights)
          IN /\ rfiles' = [rfiles EXCEPT ![ridx + 1] = w.file]
             /\ ridx' = ridx + 1
             /\ rstatus' = IF w.raised THEN "raised"
                           ELSE IF ridx + 1 = Len(Students) THEN "done" ELSE "running"
    /\ UNCHANGED <<rrun, rsnapshot, storeVars, valVars, anVars, mergeVars, groupVars, metricVars, indexVars, phase2Vars, aggVars, classVars>>

\* The first run stops between two students.
StopRun ==
    /\ rrun = 1
    /\ rstatus = "running"
    /\ rstatus' = "stopped"
    /\ rsnapshot' = rfiles
    /\ UNCHANGED <<rfiles, rrun, ridx, storeVars, valVars, anVars, mergeVars, groupVars, metricVars, indexVars, phase2Vars, aggVars, classVars>>

\* Phase 2 is run again on the same input.
Rerun ==
    /\ rstatus = "stopped"
    /\ rrun' = 2
    /\ ridx' = 0
    /\ rstatus' = "running"
    /\ UNCHANGED <<rfiles, rsnapshot, storeVars, valVars, anVars, mergeVars, groupVars, metricVars, indexVars, phase2Vars, aggVars, classVars>>

ResumeNext == ProcessStudent2 \/ StopRun \/ Rerun

SpecResume == ResumeInit /\ [][ResumeNext]_vars

\* The students whose file the first run had written when it stopped
WrittenBeforeStop == { i \in 1..Len(Students) : rsnapshot[i].kind # "absent" }

IdOrder == <<"S1", "S2", "S3">>

IndexIds == { ids \in SeqsUpTo({"S1", "S2", "S3"}, MaxStudents) :
                 \A i, j \in 1..Len(ids) : ids[i] = ids[j] => i = j }

\* target_class: "" stands for None
TargetClasses == {"", "class_7", "class_8"}

\* student_data of phase 4: the students and their records
IndexStudentData ==
    UNION { { [i \in 1..Len(ids) |->
                  [student_id |-> ids[i], records |-> [j \in 1..n[i] |-> "r"]]] :
                n \in { [i \in 1..Len(ids) |-> 1], [i \in 1..Len(ids) |-> i] } } :
            ids \in IndexIds }

SelectedClasses == { <<"class_7">>, <<"class_8", "class_7">> }

\* An index writer that adds the new ids to the ids of the previous index.
write_index_file2_merged(index_file, student_ids, target_class, config_default) ==
    LET old == IF index_file = <<>> THEN <<>> ELSE index_file[1].student_ids
        IsNew(id) == \A i \in 1..Len(old) : old[i] # id
        ids == old \o SelectSeq(student_ids, IsNew)
    IN << [total_students |-> Len(ids),
           student_ids |-> ids,
           class |-> IF target_class # "" THEN target_class ELSE config_default] >>

\* phase2/output_writer.py lines 64-82: the file is opened for writing and
\* the previous content is not read
write_index_file2(index_file, student_ids, target_class, config_default) ==
    << [total_students |-> Len(student_ids),
        student_ids |-> student_ids,
        class |-> IF target_class # "" THEN target_class ELSE config_default] >>

\* sorted(list(student_data.keys()))
SortedIds(student_data) ==
    LET IsKey(id) == \E i \in 1..Len(student_data) : student_data[i].student_id = id
    IN SelectSeq(IdOrder, IsKey)

\* phase4/aggregator.py lines 179-205
write_index_file4(index_file, student_data, selected_classes) ==
    << [total_students |-> Len(student_data),
        student_ids |-> SortedIds(student_data),
        classes_included |-> selected_classes,
        records_per_student |->
            [i \in 1..Len(student_data) |->
                [student_id |-> student_data[i].student_id,
                 count |-> Len(student_data[i].records)]]] >>

IndexCall(fn, student_ids, target_class, student_data, selected_classes) ==
    << [fn |-> fn, student_ids |-> student_ids, target_class |-> target_class,
        student_data |-> student_data, selected_classes |-> selected_classes] >>

\* The index files an earlier run may have left
IndexInit ==
    /\ indexFile2 \in { <<>>, write_index_file2(<<>>, <<"S3">>, "class_8", "class_8") }
    /\ indexFile4 \in { <<>>, write_index_file4(<<>>, <<[student_id |-> "S3", records |-> <<"r">>]>>,
                                               <<"class_8">>) }
    /\ default_class \in {"class_7", "class_8"}
    /\ ilast = <<>>
    /\ StoreIdle
    /\ ValIdle
    /\ AnIdle
    /\ MergeIdle
    /\ GroupIdle
    /\ MetricsIdle
    /\ ResumeIdle
    /\ Phase2Idle
    /\ AggIdle
    /\ ClassifyIdle

WriteIndexFile2 ==
    \E student_ids \in IndexIds : \E target_class \in TargetClasses :
        /\ indexFile2' = write_index_file2(indexFile2, student_ids, target_class, default_class)
        /\ ilast' = IndexCall(2, student_ids, target_class, <<>>, <<>>)
        /\ UNCHANGED <<indexFile4, default_class, storeVars, valVars, anVars, mergeVars,
                       groupVars, metricVars, resumeVars, phase2Vars, aggVars, classVars>>

WriteIndexFile4 ==
    \E student_data \in IndexStudentData : \E selected_classes \in SelectedClasses :
        /\ indexFile4' = write_index_file4(indexFile4, student_data, selected_classes)
        /\ ilast' = IndexCall(4, <<>>, "", student_data, selected_classes)
        /\ UNCHANGED <<indexFile2, default_class, storeVars, valVars, anVars, mergeVars,
                       groupVars, metricVars, resumeVars, phase2Vars, aggVars, classVars>>

IndexNext == WriteIndexFile2 \/ WriteIndexFile4

SpecIndex == IndexInit /\ [][IndexNext]_vars

\* C21: after a write_index_file the index holds the number of the student
\* ids given, these ids (phase 2: the list as given; phase 4: the keys of the
\* map given, sorted) and the class selection of this call, whatever index
\* was there before.
C21_IndexDerived ==
    ilast # <<>> =>
        LET call == ilast[1]
        IN IF call.fn = 2
           THEN /\ Len(indexFile2) = 1
                /\ indexFile2[1].total_students = Len(call.student_ids)
                /\ indexFile2[1].student_ids = call.student_ids
                /\ indexFile2[1].class =
                      (IF call.target_class = "" THEN default_class ELSE call.target_class)
           ELSE /\ Len(indexFile4) = 1
                /\ indexFile4[1].total_students = Len(call.student_data)
                /\ Len(indexFile4[1].student_ids) = Len(call.student_data)
                /\ \A i \in 1..Len(call.student_data) :
                      /\ \E j \in 1..Len(indexFile4[1].student_ids) :
                            indexFile4[1].student_ids[j] = call.student_data[i].student_id
                      /\ indexFile4[1].records_per_student[i].student_id = call.student_data[i].student_id
                      /\ indexFile4[1].records_per_student[i].count = Len(call.student_data[i].records)
                /\ Len(indexFile4[1].records_per_student) = Len(call.student_data)
                /\ indexFile4[1].classes_included = call.selected_classes

\* An index for two students is replaced by the index of a call with one
\* other student.
C21_Witness ==
    /\ ilast # <<>>
    /\ ilast[1].fn = 2
    /\ ilast[1].student_ids = <<"S1">>
    /\ ilast[1].target_class = "class_7"
    /\ indexFile2 = << [total_students |-> 1, student_ids |-> <<"S1">>, class |-> "class_7"] >>
    /\ indexFile4 # <<>>

\* The merge with input files that may be missing; a missing file has no rows.
MergeFilesInit ==
    /\ mfiles \in MergeInputFiles
    /\ answer_key \in (IF mfiles.answer_key THEN AnswerKeys ELSE {<<>>})
    /\ response_sheet \in (IF mfiles.response_sheet THEN SeqsUpTo(ResponseRows, 1) ELSE {<<>>})
    /\ mergedFile = [written |-> FALSE, records |-> <<>>]
    /\ mstatus = "ready"
    /\ StoreIdle
    /\ ValIdle
    /\ AnIdle
    /\ GroupIdle
    /\ MetricsIdle
    /\ ResumeIdle
    /\ IndexIdle
    /\ Phase2Idle
    /\ AggIdle
    /\ ClassifyIdle

SpecMergeFiles == MergeFilesInit /\ [][MergeNext]_vars

\* C22 as stated: when the question paper of the class, the answer key or
\* the response sheet does not exist, process() has raised and merged.json
\* is not written.
C22_MissingInputFatal ==
    (/\ mstatus # "ready"
     /\ (mfiles.question_paper # "own" \/ ~mfiles.answer_key \/ ~mfiles.response_sheet))
        => (mstatus = "raised" /\ ~mergedFile.written)

\* C22: when the answer key or the response sheet does not exist, or the
\* question paper exists neither for the class nor in the folder of any
\* other class, process() has raised and merged.json is not written; a
\* question paper found in another class folder is used instead of the
\* missing one and the merge goes on as with the class's own.
C22_MissingInputFatalUnlessFound ==
    /\ (/\ mstatus # "ready"
        /\ (mfiles.question_paper = "none" \/ ~mfiles.answer_key \/ ~mfiles.response_sheet))
          => (mstatus = "raised" /\ ~mergedFile.written)
    /\ (/\ mstatus # "ready"
        /\ mfiles.question_paper = "other" /\ mfiles.answer_key /\ mfiles.response_sheet
        /\ \A i \in 1..Len(response_sheet) :
              IsKnownRow(response_sheet[i]) => HasCorrectOption(response_sheet[i].q))
          => (mstatus = "done" /\ mergedFile.written)

\* The answer key is missing: the merge has raised and written nothing.
C22_Witness ==
    /\ mstatus = "raised"
    /\ ~mfiles.answer_key
    /\ mfiles.question_paper = "own"
    /\ mfiles.response_sheet
    /\ Len(response_sheet) = 1
    /\ ~mergedFile.written

\* The file holds a list under the key
HoldsList(file, key) == file.kind = "dict" /\ file.data[key].tag = "list"

\* C23 as stated: once phase 2, phase 3 and phase 5 have written for the
\* student, the file students/{id}.json of phase 2 holds insights,
\* pattern_insights and phase5_insights together.
C23_OneRecord ==
    (/\ HoldsList(studentFile, "insights")
     /\ HoldsList(studentFile, "pattern_insights")
     /\ HoldsList(phase4File, "phase5_insights"))
        => HoldsList(studentFile, "phase5_insights")

\* C23: phase 3 amends the record phase 2 created: after a phase-3 write on
\* a file that held insights, students/{id}.json holds the same insights
\* and the pattern_insights together. Phase 5 amends the student file of
\* phase 4 (phase4/students/{id}.json), which keeps its records and holds
\* the phase5_insights; students/{id}.json never holds phase5_insights.
C23_TwoRecords ==
    /\ studentFile.kind = "dict" => studentFile.data["phase5_insights"].tag = "absent"
    /\ (lastOp.op = "w3" /\ ~raised /\ HoldsList(prevFile, "insights")) =>
          /\ HoldsList(studentFile, "insights")
          /\ studentFile.data["insights"] = prevFile.data["insights"]
          /\ studentFile.data["pattern_insights"] = JList(lastOp.arg)
    /\ (lastOp.op = "w5" /\ prevFile.kind = "dict") =>
          /\ phase4File.kind = "dict"
          /\ phase4File.data["phase5_insights"] = JList(lastOp.arg)
          /\ phase4File.data["records"] = prevFile.data["records"]
          /\ phase4File.data["student_id"] = prevFile.data["student_id"]
          /\ phase4File.data["insights"].tag = "absent"

\* Phases 2, 3 and 5 have written: insights and pattern_insights are in one
\* file, the records and phase5_insights in the other.
C23_Witness ==
    /\ lastOp.op = "w5"
    /\ HoldsList(studentFile, "insights")
    /\ InsightsOf(studentFile) # <<>>
    /\ HoldsList(studentFile, "pattern_insights")
    /\ HoldsList(phase4File, "records")
    /\ HoldsList(phase4File, "phase5_insights")

\* The list the validator of phase p (3 or 5) walks through: the response
\* after its unwrap step.
Unwrapped(p) == IF p = 3 THEN Unwrap3(3, response) ELSE Unwrap5(5, response)

\* The item the validator of phase p (3 or 5) takes as valid.
IsValidItem(p, item) == IF p = 3 THEN IsMapping(item) ELSE IsComplete5(item)

\* r is a fully-fallback item of phase p at rank n of the result.
IsPadding(p, n, r) ==
    IF p = 3
    THEN /\ r.isdict
         /\ r.f["insight"] = JStr(<<"Additional pattern analysis needed (insight ", ToString(n), ")">>)
         /\ r.f["recommendation"] = T("Continue monitoring performance across topics")
         /\ r.f["citation"] = T("Insufficient data for pattern detection")
    ELSE /\ r.isdict
         /\ r.f["topic"] = T("General") /\ r.f["subject"] = T("Overall")
         /\ r.f["accuracy"] = JNum("0.0")
         /\ r.f["problem"] = T("Additional pattern analysis needed")
         /\ r.f["action"] = T("Continue monitoring performance across tests")
         /\ r.f["citation"] = T("Insufficient data for pattern detection")

\* C24: in phases 3 and 5, when the list walked through has n valid items,
\* the result is the first min(n, 5) of them (each as the validator keeps
\* it) in their order, followed by 5 - min(n, 5) fully-fallback items.
C24_RepairKeepsOrder ==
    (vdone /\ vphase \in {3, 5} /\ Unwrapped(vphase).tag = "list") =>
        LET items == Unwrapped(vphase).items
            IsValid(item) == IsValidItem(vphase, item)
            pos == PositionsOf(items, IsValid)
            m == Min(Len(pos), 5)
        IN /\ Len(result) = 5
           /\ \A i \in 1..m : Retains(vphase, items[pos[i]], pos[i] - 1, result[i])
           /\ \A i \in (m + 1)..5 : IsPadding(vphase, i, result[i])

\* Truncation: six valid items, the first and the last different.
C24_WitnessTruncate ==
    /\ vdone /\ vphase = 5 /\ response.tag = "list"
    /\ Len(response.items) = 6
    /\ \A i \in 1..6 : IsComplete5(response.items[i])
    /\ response.items[1] # response.items[6]
    /\ Len(result) = 5

\* Padding: an invalid item between two valid ones, three padded items.
C24_Witness ==
    /\ vdone /\ vphase = 3 /\ response.tag = "list"
    /\ Len(response.items) = 3
    /\ IsMapping(response.items[1]) /\ ~IsMapping(response.items[2])
    /\ IsMapping(response.items[3])
    /\ response.items[1] # response.items[3]
    /\ Len(result) = 5
    /\ IsPadding(3, 3, result[3])

(***************************************************************************)
(* Phase 2: llm_analyzer.process() on the chunks of every student          *)
(***************************************************************************)
\* A second subject of the same test, with a topic named as one of Math's.
ScienceChunk ==
    [test_name |-> "T1", subject |-> "Science", topics |-> <<"Algebra">>,
     metadata |-> <<TopicMeta("Science Algebra")>>]

\* The subject chunks of one student: one chunk for each of their subjects.
ChunkLists ==
    { l \in SeqsUpTo({SubjectChunk, ScienceChunk}, MaxChunks) :
        /\ Len(l) >= 1
        /\ \A i, j \in 1..Len(l) : l[i].subject = l[j].subject => i = j }

\* The model's answers to one chunk: no list, one complete item that brings
\* a topic_metadata of its own, one item whose topic_name is a list.
ProcessResponses ==
    { ScalarResponse(2),
      ListResponse(2, <<DictItem([FullA(2) EXCEPT !["topic_metadata"] = T("own")])>>),
      ListResponse(2, <<DictItem([FullA(2) EXCEPT !["topic_name"] = JList(<< <<"Algebra">> >>)])>>) }

ProcessOutcomes == {CallRaises} \cup { CallReturns(r) : r \in ProcessResponses }

\* The file of student i before the run: none, or the one an earlier run of
\* phase 2 has left.
ProcessInitFiles(i) ==
    << FileAbsent,
       FileDict([EmptyDict EXCEPT
           !["student_id"] = JStr(StudentName(i)),
           !["insights"] = JList(<<Insight("T1", "Algebra", "earlier run")>>)]) >>

Event(kind, student, chunk) == [kind |-> kind, student |-> student, chunk |-> chunk]

\* A cool-down that is skipped.
CallWithoutSleep(student, chunk) == <<Event("call", student, chunk)>>

\* Lines 159-164: the model call of analyze_subject_chunk, then time.sleep(1).
CallThenSleep(student, chunk) ==
    <<Event("call", student, chunk), Event("sleep", student, chunk)>>

Phase2Init ==
    /\ \E n \in 1..MaxStudents :
          /\ pinput \in [1..n -> ChunkLists]
          /\ \E f \in [1..n -> 1..2] :
                pfiles = [i \in 1..n |-> ProcessInitFiles(i)[f[i]]]
    /\ pstudent = 0
    /\ pchunk = 0
    /\ pinsights = <<>>
    /\ plast = [called |-> FALSE]
    /\ pevents = <<>>
    /\ processed_count = 0
    /\ pstatus = "running"
    /\ StoreIdle
    /\ ValIdle
    /\ AnIdle
    /\ MergeIdle
    /\ GroupIdle
    /\ MetricsIdle
    /\ ResumeIdle
    /\ IndexIdle
    /\ AggIdle
    /\ ClassifyIdle

\* Lines 157-164: one turn of the loop over the student's subject chunks.
AnalyzeChunk ==
    /\ pstatus = "running"
    /\ pstudent < Len(pinput)
    /\ pchunk < Len(pinput[pstudent + 1])
    /\ \E outcome \in ProcessOutcomes :
          LET subject_chunk == pinput[pstudent + 1][pchunk + 1]
              topic_insights == analyze_subject_chunk(subject_chunk, outcome)
          IN /\ pinsights' = pinsights \o topic_insights
             /\ plast' = [called |-> TRUE, subject_chunk |-> subject_chunk,
                          outcome |-> outcome, topic_insights |-> topic_insights]
    /\ pevents' = pevents \o CallThenSleep(pstudent + 1, pchunk + 1)
    /\ pchunk' = pchunk + 1
    /\ UNCHANGED <<pinput, pfiles, pstudent, processed_count, pstatus,
                   storeVars, valVars, anVars, mergeVars, groupVars, metricVars, resumeVars, indexVars, aggVars, classVars>>

\* Lines 166-168: the student's file is written, the counter goes up.
WriteStudent ==
    /\ pstatus = "running"
    /\ pstudent < Len(pinput)
    /\ pchunk = Len(pinput[pstudent + 1])
    /\ LET student_insights == [j \in 1..Len(pinsights) |-> StoredInsight(pinsights[j])]
           w == write_student_output(pfiles[pstudent + 1], StudentName(pstudent + 1),
                                     student_insights)
       IN /\ pfiles' = [pfiles EXCEPT ![pstudent + 1] = w.file]
          /\ pevents' = Append(pevents, Event("write", pstudent + 1, 0))
          /\ IF w.raised
             THEN /\ pstatus' = "raised"
                  /\ UNCHANGED <<pstudent, pchunk, pinsights, processed_count>>
             ELSE /\ pstudent' = pstudent + 1
                  /\ pchunk' = 0
                  /\ pinsights' = <<>>
                  /\ processed_count' = processed_count + 1
                  /\ pstatus' = "running"
    /\ UNCHANGED <<pinput, plast,
                   storeVars, valVars, anVars, mergeVars, groupVars, metricVars, resumeVars, indexVars, aggVars, classVars>>

\* Line 172: return processed_count
ReturnCount ==
    /\ pstatus = "running"
    /\ pstudent = Len(pinput)
    /\ pstatus' = "returned"
    /\ UNCHANGED <<pinput, pfiles, pstudent, pchunk, pinsights, plast, pevents, processed_count,
                   storeVars, valVars, anVars, mergeVars, groupVars, metricVars, resumeVars, indexVars, aggVars, classVars>>

Phase2Next == AnalyzeChunk \/ WriteStudent \/ ReturnCount

SpecPhase2 == Phase2Init /\ [][Phase2Next]_vars

\* C25: analyze_subject_chunk returns one insight for each topic of the
\* chunk, in the chunk's topic order, each with that topic's name and its
\* topic_metadata, whatever the model call did.
C25_OneInsightPerTopic ==
    plast.called =>
        /\ Len(plast.topic_insights) = Len(plast.subject_chunk.topics)
        /\ \A i \in 1..Len(plast.subject_chunk.topics) :
              /\ plast.topic_insights[i].f["topic_name"] = T(plast.subject_chunk.topics[i])
              /\ plast.topic_insights[i].f["topic_metadata"] = plast.subject_chunk.metadata[i]

\* The positions of the trace that hold an event of that kind and student.
EventsAt(kind, student) ==
    { k \in 1..Len(pevents) : pevents[k].kind = kind /\ pevents[k].student = student }

AggRecordKinds ==
    { [student_id |-> sid, subject |-> "Math", chapter |-> "Ch1", topic |-> "Algebra",
       correct_option |-> <<"A">>, student_selected_option |-> <<"B">>] :
          sid \in {"S1", "S2", ""} }

AggMergedLists ==
    { [i \in 1..Len(ks) |-> MergedRecord(ks[i], i)] : ks \in SeqsUpTo(AggRecordKinds, MaxRecords) }

\* The answers to the prompt that select something: a list of available
\* classes, or "all".
SelectedLists ==
    { <<"class_7">>, <<"class_8">>, <<"class_7", "class_8">>,
      <<"class_8", "class_7">>, <<"class_7", "class_7">> }

AggInit ==
    /\ merged_files \in [AvailableClasses -> AggMergedLists]
    /\ p4selected \in SelectedLists
    /\ p4result = <<>>
    /\ p4written = <<>>
    /\ merged_after = merged_files
    /\ p4done = FALSE
    /\ StoreIdle
    /\ ValIdle
    /\ AnIdle
    /\ MergeIdle
    /\ GroupIdle
    /\ MetricsIdle
    /\ ResumeIdle
    /\ IndexIdle
    /\ Phase2Idle
    /\ ClassifyIdle

\* phase4/aggregator.py lines 208-245, after the prompt: aggregate, and
\* unless no student was found write the student files and the index.
Process4 ==
    /\ ~p4done
    /\ LET student_data == aggregate_by_student(p4selected, merged_files)
       IN /\ p4result' = student_data
          /\ merged_after' = LoadedAfter(p4selected, merged_files)
          /\ IF student_data = <<>>
             THEN UNCHANGED <<p4written, indexFile4>>
             ELSE /\ p4written' = write_student_files(student_data)
                  /\ indexFile4' = write_index_file4(indexFile4, student_data, p4selected)
    /\ p4done' = TRUE
    /\ UNCHANGED <<merged_files, p4selected, indexFile2, default_class, ilast,
                   storeVars, valVars, anVars, mergeVars, groupVars, metricVars, resumeVars, phase2Vars, classVars>>

AggNext == Process4

SpecAggregate == AggInit /\ [][AggNext]_vars

\* The record without its test_name
Untagged(r) == [k \in DOMAIN r \ {"test_name"} |-> r[k]]

\* The records of one student in the merged.json of one class
OwnRecords(class_name, sid) ==
    LET Of(r) == r.student_id = sid
    IN SelectSeq(merged_files[class_name], Of)

\* <<k, r>> for the records r of the student in the k-th selected class,
\* in class order then record order
RECURSIVE OwnInOrder(_, _)
OwnInOrder(sid, k) ==
    IF k > Len(p4selected) THEN <<>>
    ELSE LET own == OwnRecords(p4selected[k], sid)
         IN [i \in 1..Len(own) |-> <<k, own[i]>>] \o OwnInOrder(sid, k + 1)

\* C27: aggregate_by_student returns for each student the merged records of
\* that student from the selected classes, in class order then record
\* order, each with its class as test_name and otherwise unchanged; no
\* entry is made for the empty student_id, the loaded records are not
\* mutated, and each file written has total_records equal to the length of
\* its records.
C27_AggregationConserves ==
    p4done =>
        /\ \A sid \in {"S1", "S2", ""} :
              LET expected == OwnInOrder(sid, 1)
                  entries == { i \in 1..Len(p4result) : p4result[i].student_id = sid }
              IN IF sid = "" \/ expected = <<>> THEN entries = {}
                 ELSE /\ Cardinality(entries) = 1
                      /\ \A i \in entries :
                            /\ Len(p4result[i].records) = Len(expected)
                            /\ \A j \in 1..Len(expected) :
                                  /\ p4result[i].records[j].test_name = p4selected[expected[j][1]]
                                  /\ Untagged(p4result[i].records[j]) = expected[j][2]
        /\ merged_after = merged_files
        /\ Len(p4written) = Len(p4result)
        /\ \A i \in 1..Len(p4written) :
              /\ p4written[i].student_id = p4result[i].student_id
              /\ p4written[i].records = p4result[i].records
              /\ p4written[i].total_records = Len(p4written[i].records)

\* Two classes selected, a student with records in both and a record
\* without student_id between them.
C27_Witness ==
    /\ p4done
    /\ p4selected = <<"class_8", "class_7">>
    /\ Len(OwnRecords("class_7", "S1")) >= 1
    /\ Len(OwnRecords("class_8", "S1")) >= 2
    /\ Len(OwnRecords("class_8", "")) >= 1
    /\ \E i \in 1..Len(p4written) :
          p4written[i].student_id = "S1" /\ p4written[i].total_records >= 3

\* The insights of the list have pairwise distinct (test_name, topic_name) keys.
KeysDistinct(insights) ==
    \A j, k \in 1..Len(insights) : KeyOf(insights[j]) = KeyOf(insights[k]) => j = k

\* The insights the file holds (none when it holds no list of them)
StoredInsights(file) == IF HasInsightList(file) THEN InsightsOf(file) ELSE <<>>

\* C28: a write_student_output call on a file whose insights have pairwise
\* distinct keys (or that is absent) leaves a file whose insights have
\* pairwise distinct keys; of the incoming insights with one key that the
\* file did not hold, the first is the one stored.
C28_KeysStayUnique ==
    (lastOp.op = "w2" /\ ~raised /\ KeysDistinct(StoredInsights(prevFile))) =>
        /\ HasInsightList(studentFile)
        /\ KeysDistinct(InsightsOf(studentFile))
        /\ \A b \in 1..Len(lastOp.arg) :
              (/\ KeyOf(lastOp.arg[b]) \notin KeysOf(StoredInsights(prevFile))
               /\ \A a \in 1..(b - 1) : KeyOf(lastOp.arg[a]) # KeyOf(lastOp.arg[b]))
                 => \E j \in 1..Len(InsightsOf(studentFile)) :
                       InsightsOf(studentFile)[j] = lastOp.arg[b]

\* The batch holds two different insights with one key that the file, which
\* held another insight, did not hold; only the first of the two is stored.
C28_Witness ==
    /\ lastOp.op = "w2" /\ ~raised
    /\ Len(StoredInsights(prevFile)) = 1
    /\ Len(lastOp.arg) = 2
    /\ KeyOf(lastOp.arg[1]) = KeyOf(lastOp.arg[2])
    /\ lastOp.arg[1] # lastOp.arg[2]
    /\ KeyOf(lastOp.arg[1]) \notin KeysOf(StoredInsights(prevFile))
    /\ InsightsOf(studentFile) = Append(StoredInsights(prevFile), lastOp.arg[1])

\* The questions of one topic bucket of phase 2
BucketQuestions(topic) ==
    topic.strength.correct_questions \o topic.weakness.wrong_questions
        \o topic.weakness.unattempted_questions

\* <<s, c, t, k>>: the k-th question of topic t of chunk c of student s
BucketPlaces ==
    UNION { UNION { UNION { { <<s, c, t, k>> :
                k \in 1..Len(BucketQuestions(student_chunks[s].chunks[c].topics[t])) } :
              t \in 1..Len(student_chunks[s].chunks[c].topics) } :
            c \in 1..Len(student_chunks[s].chunks) } :
          s \in 1..Len(student_chunks) }

\* C29: after phase 2's grouping each record of merged.json with a
\* student_id is in exactly one bucket, the one of its student_id, subject
\* and topic; the sizes of a student's buckets add up to the number of the
\* student's records; no student, subject chunk or bucket is empty.
C29_GroupingConserves ==
    2 \in gdone =>
      LET all_places == BucketPlaces
      IN
        /\ \A i \in 1..Len(mergedInput) :
              LET places == { p \in all_places :
                                BucketQuestions(student_chunks[p[1]].chunks[p[2]].topics[p[3]])[p[4]]
                                    .question_id = mergedInput[i].question_id }
              IN IF mergedInput[i].student_id = "" THEN places = {}
                 ELSE /\ Cardinality(places) = 1
                      /\ \A p \in places :
                            /\ student_chunks[p[1]].student_id = mergedInput[i].student_id
                            /\ student_chunks[p[1]].chunks[p[2]].subject = mergedInput[i].subject
                            /\ student_chunks[p[1]].chunks[p[2]].topics[p[3]].topic_name
                                  = mergedInput[i].topic
        /\ \A s \in 1..Len(student_chunks) :
              /\ student_chunks[s].student_id # ""
              /\ Cardinality({ p \in all_places : p[1] = s })
                    = Cardinality({ i \in 1..Len(mergedInput) :
                                      mergedInput[i].student_id = student_chunks[s].student_id })
              /\ Len(student_chunks[s].chunks) >= 1
              /\ \A c \in 1..Len(student_chunks[s].chunks) :
                    /\ Len(student_chunks[s].chunks[c].topics) >= 1
                    /\ \A t \in 1..Len(student_chunks[s].chunks[c].topics) :
                          Len(BucketQuestions(student_chunks[s].chunks[c].topics[t])) >= 1

\* A bucket of two questions, next to a record without student_id.
C29_Witness ==
    /\ 2 \in gdone
    /\ \E i \in 1..Len(mergedInput) : mergedInput[i].student_id = ""
    /\ \E s \in 1..Len(student_chunks) :
          \E c \in 1..Len(student_chunks[s].chunks) :
              Len(BucketQuestions(student_chunks[s].chunks[c].topics[1])) = 2

(***************************************************************************)
(* The classifiers of an answer: phase 2 (determine_correctness), phase 5  *)
(* (is_wrong_question) and phase 6 (classify_answer)                       *)
(***************************************************************************)
\* The options of the answer key and of a coerced response
OptionLetters == { <<"A">>, <<"B">>, <<"C">>, <<"D">> }

\* The pairs of a record written by the merge on a key with options A-D
MergePairs == OptionLetters \X (OptionLetters \cup {<<>>})

\* Pairs of a merged.json that was edited or written by another tool
OtherPairs ==
    { << <<"B">>, <<"b">> >>, << <<"A">>, <<" ">> >>, << <<" ", "C">>, <<"C">> >> }

AnswerRecords ==
    { [correct_option |-> p[1], student_selected_option |-> p[2]] :
        p \in MergePairs \cup OtherPairs }

\* A classifier that takes an empty selection for an incorrect answer.
classify_answer_attempted(correct_option, student_selected_option) ==
    IF student_selected_option = correct_option THEN "correct" ELSE "incorrect"

\* phase6/generate_reports.py lines 43-59: the options are compared as they are
classify_answer(correct_option, student_selected_option) ==
    IF student_selected_option = <<>> \/ Strip(student_selected_option) = <<>>
    THEN "unattempted"
    ELSE IF student_selected_option = correct_option THEN "correct"
    ELSE "incorrect"

ClassifyInit ==
    /\ \E n \in 1..MaxAnswers : crecords \in [1..n -> AnswerRecords]
    /\ class2 = <<>>
    /\ wrong5 = <<>>
    /\ class6 = <<>>
    /\ classified = {}
    /\ StoreIdle
    /\ ValIdle
    /\ AnIdle
    /\ MergeIdle
    /\ GroupIdle
    /\ MetricsIdle
    /\ ResumeIdle
    /\ IndexIdle
    /\ Phase2Idle
    /\ AggIdle

\* Phase 2, data_processor.py lines 108-110
Classify2 ==
    /\ 2 \notin classified
    /\ class2' = [i \in 1..Len(crecords) |->
                     determine_correctness(crecords[i].correct_option,
                                           crecords[i].student_selected_option)]
    /\ classified' = classified \cup {2}
    /\ UNCHANGED <<crecords, wrong5, class6, storeVars, valVars, anVars, mergeVars,
                   groupVars, metricVars, resumeVars, indexVars, phase2Vars, aggVars>>

\* Phase 5, data_processor.py lines 88-89
Classify5 ==
    /\ 5 \notin classified
    /\ wrong5' = [i \in 1..Len(crecords) |-> is_wrong_question(crecords[i])]
    /\ classified' = classified \cup {5}
    /\ UNCHANGED <<crecords, class2, class6, storeVars, valVars, anVars, mergeVars,
                   groupVars, metricVars, resumeVars, indexVars, phase2Vars, aggVars>>

\* Phase 6, generate_reports.py line 127
Classify6 ==
    /\ 6 \notin classified
    /\ class6' = [i \in 1..Len(crecords) |->
                     classify_answer(crecords[i].correct_option,
                                     crecords[i].student_selected_option)]
    /\ classified' = classified \cup {6}
    /\ UNCHANGED <<crecords, class2, wrong5, storeVars, valVars, anVars, mergeVars,
                   groupVars, metricVars, resumeVars, indexVars, phase2Vars, aggVars>>

ClassifyNext == Classify2 \/ Classify5 \/ Classify6

SpecClassify == ClassifyInit /\ [][ClassifyNext]_vars

\* The record holds a pair the merge produces on a key with options A-D.
IsMergePair(record) ==
    <<record.correct_option, record.student_selected_option>> \in MergePairs

\* C30: on a record whose correct option is one of A-D and whose selected
\* option is one of A-D or empty, phase 2 answers "correct" exactly when
\* phase 6 does, "unattempted" exactly when phase 6 does, and phase 5 takes
\* the question for wrong exactly when phase 2 answers "wrong" or
\* "unattempted".
C30_ClassifiersAgree ==
    classified = {2, 5, 6} =>
        \A i \in 1..Len(crecords) :
            IsMergePair(crecords[i]) =>
                /\ class2[i] = "correct" <=> class6[i] = "correct"
                /\ class2[i] = "unattempted" <=> class6[i] = "unattempted"
                /\ wrong5[i] <=> class2[i] \in {"wrong", "unattempted"}

\* The three classifiers have run on an unattempted and a wrong answer.
C30_Witness ==
    /\ classified = {2, 5, 6}
    /\ Len(crecords) = 2
    /\ IsMergePair(crecords[1]) /\ IsMergePair(crecords[2])
    /\ class2 = <<"unattempted", "wrong">>
    /\ class6 = <<"unattempted", "incorrect">>
    /\ wrong5 = <<TRUE, TRUE>>

====
